---- MODULE Spec2Model ----
(***************************************************************************)
(* A model of RepositoryMiner (src/miner/repository.py): the extraction of *)
(* fixing files (get_fixing_files), the labeling walk (label) and their    *)
(* orchestration (mine), over every small consistent commit history; of    *)
(* the miner of iacminer, of Main.run and of the mine command.             *)
(***************************************************************************)
EXTENDS Integers, Sequences, FiniteSets, TLC

\* ------------------------------------------------------------------ bounds
\* Number of commits of the branch under analysis.
NCommits == 4

\* Number of releases of the repository Main.run works on.
NReleases == 2

\* Number of fragments a commit message is made of.
MaxFragments == 4

\* ------------------------------------------------------- values and helpers
None == "None"

\* Commit ids are opaque: their order is their position in commit_hashes,
\* never the order of the ids themselves. The i-th commit of a modelled
\* repository has the id AllHashes[i].
AllHashes == <<"h7", "h2", "h9", "h4", "h1", "h8", "h3">>

\* ------------------------------------------------------------------- state
VARIABLES
    commit_hashes,   \* self.commit_hashes: the commits of the branch, oldest first
    mods,            \* input: commit id -> commit.modifications
    blame,           \* input: commit id -> per modification, the blamed commits
    msgFix,          \* input: the commits whose cleaned message matches the regex
    issueFix,        \* input: the commit ids of the closed bug issues' events
    maxRuns,         \* input: how many times the caller invokes mine()
    exclude_commits,       \* self.exclude_commits: the commits the caller excludes
    exclude_fixing_files,  \* self.exclude_fixing_files: the fixing files the caller excludes
    returned,        \* the list the last call of a finder returned
    extracted,       \* the list the last call of get_fixing_files returned
    commit_msg,      \* message matching: commit.msg of the commit under test
    regex,           \* message matching: the keywords of the caller's regex
    matched,         \* message matching: "untested", "appended" or "skipped"
    defect_prone_files,  \* Main.run: commits_miner.defect_prone_files, release -> files
    defect_free_files,   \* Main.run: commits_miner.defect_free_files, release -> files
    unreadable,      \* Main.run: the (release, file) whose reading or measuring raises
    broken,          \* Main.run: the releases whose process metrics or checkout raise
    run_pc,          \* Main.run: the statement that runs next
    release_i,       \* Main.run: the position of the release of the loop
    file_i,          \* Main.run: the position of the file of the inner loop
    saved,           \* Main.run: the rows save() has written
    printed,         \* Main.run: the files the except branches have reported
    git_ops,         \* Main.run: the operations done on the cloned repository
    fixing_commits,  \* self.fixing_commits
    fixing_files,    \* self.fixing_files: the FixingFile objects, by identity
    renamed_files,   \* get_fixing_files: the local dict renamed_files
    labelKeys,       \* label: the keys of the dict labeling, in insertion order
    labeling,        \* label: key -> list of FixingFile objects (positions in fixing_files)
    out,             \* the elements mine()/label() has yielded so far
    err,             \* the exception that ended the run, or "none"
    pc,              \* the phase of mine() that runs next
    cur,             \* the position of the commit the walk visits next
    runs,            \* completed invocations of mine()
    prevOut,         \* what the previous invocation yielded
    prevErr,         \* how the previous invocation ended
    info_to_mine,    \* mine command: args.info_to_mine
    include_commits, \* mine command: the commits of the --include-commits file
    raises,          \* mine command: the phase whose call of the miner raises, or "none"
    cli_pc,          \* mine command: the statement that runs next
    miner_fixing_commits,  \* mine command: miner.fixing_commits of the command's miner
    written,         \* mine command: the JSON files written so far, in order
    issues,          \* iacminer: the closed bug issues, each the list of its events
    iac_fixing_commits,  \* iacminer: self.fixing_commits, a set
    iac_fixing_files,    \* iacminer: the local list fixing_files of get_fixing_files
    iac_renamed_files,   \* iacminer: the local dict renamed_files of get_fixing_files
    iac_pc,          \* iacminer: the statement of mine() that runs next
    iac_i,           \* iacminer: the position of the issue of the loop
    iac_cur,         \* iacminer: the position of the commit the walk visits next
    iac_err,         \* iacminer: the exception that ended mine(), or "none"
    release_commits, \* Main.run: the commits only_releases yields, in release order
    releases_hash,   \* Main.run: the local list releases_hash, a queue
    releases_date,   \* Main.run: the local list releases_date, a queue
    commits_hash,    \* Main.run: the local list commits_hash
    releases         \* Main.run: the local list releases

inputs == <<commit_hashes, mods, blame, msgFix, issueFix, maxRuns>>

\* What the caller configures on the miner before a run.
config == <<exclude_commits, exclude_fixing_files>>

\* The state of the matching of one commit message.
text == <<commit_msg, regex, matched>>

\* The state of the miner itself.
miner == <<fixing_commits, fixing_files, renamed_files, labelKeys, labeling, out,
           err, pc, cur, runs, prevOut, prevErr, returned, extracted>>

\* The state of the metrics stage of Main.run.
metrics == <<defect_prone_files, defect_free_files, unreadable, broken, run_pc,
             release_i, file_i, saved, printed, git_ops>>

\* The state of the mine command of the command line (repominer/cli.py).
command == <<info_to_mine, include_commits, raises, cli_pc, miner_fixing_commits, written>>

\* The state of the miner of iacminer (iacminer/miners/repository.py).
variant == <<issues, iac_fixing_commits, iac_fixing_files, iac_renamed_files, iac_pc, iac_i,
             iac_cur, iac_err>>

\* The state of the loop of Main.run that builds the releases.
partition == <<release_commits, releases_hash, releases_date, commits_hash, releases>>

\* The state of the other programs of the repository.
programs == <<command, variant, partition>>

\* What the steps of mine() leave alone.
aside == <<config, text, metrics>>

vars == <<commit_hashes, mods, blame, msgFix, issueFix, maxRuns, fixing_commits, fixing_files,
          renamed_files, labelKeys, labeling, out, err, pc, cur, runs,
          prevOut, prevErr, exclude_commits, exclude_fixing_files, returned,
          extracted, commit_msg, regex, matched, defect_prone_files,
          defect_free_files, unreadable, broken, run_pc, release_i, file_i,
          saved, printed, git_ops, info_to_mine, include_commits, raises, cli_pc,
          miner_fixing_commits, written, issues, iac_fixing_commits, iac_fixing_files,
          iac_renamed_files, iac_pc, iac_i, iac_cur, iac_err, release_commits,
          releases_hash, releases_date, commits_hash, releases>>

Range(s) == {s[i] : i \in 1..Len(s)}

\* The commits of the branch.
Hashes == Range(commit_hashes)

\* The paths that occur in the modelled histories.
Paths == {"a", "b"}

\* The paths of the histories that rename files along a chain of three names.
ChainPaths == Paths \cup {"c"}

\* list.index(x): the first position of x; 0 stands for the ValueError that
\* list.index raises when x is absent.
Index(s, x) ==
    IF \E i \in 1..Len(s) : s[i] = x
    THEN CHOOSE i \in 1..Len(s) : s[i] = x /\ \A j \in 1..(i - 1) : s[j] # x
    ELSE 0

\* self.commit_hashes.index(sha)
Pos(sha) == Index(commit_hashes, sha)

\* list.remove(x) on a list that holds x at position i
RemoveAt(s, i) == SubSeq(s, 1, i - 1) \o SubSeq(s, i + 1, Len(s))

\* dict.get(key, default)
DictGet(d, k, default) == IF k \in DOMAIN d THEN d[k] ELSE default

\* d[key] = value
DictPut(d, k, v) == [x \in (DOMAIN d) \cup {k} |-> IF x = k THEN v ELSE d[x]]

\* ------------------------------------------------------------- the history
\* One pydriller Modification: change_type, old_path, new_path.
Mod(t, o, n) == [change_type |-> t, old_path |-> o, new_path |-> n]

\* The modifications a commit can make to a tree holding the paths `files`.
ModChoices(files) ==
    {Mod("ADD", None, p) : p \in Paths \ files}
    \cup {Mod("MODIFY", p, p) : p \in files}
    \cup {Mod("DELETE", p, None) : p \in files}
    \cup {Mod("RENAME", o, n) : o \in files, n \in Paths \ files}

\* The tree after a modification.
After(files, m) ==
    CASE m.change_type = "ADD" -> files \cup {m.new_path}
      [] m.change_type = "DELETE" -> files \ {m.old_path}
      [] m.change_type = "RENAME" -> (files \ {m.old_path}) \cup {m.new_path}
      [] OTHER -> files

\* commit.modifications of one commit: no tracked change, or one change.
CommitChoices(files) == {<<>>} \cup {<<m>> : m \in ModChoices(files)}

RECURSIVE AfterAll(_, _)
AfterAll(files, ms) ==
    IF ms = <<>> THEN files ELSE AfterAll(After(files, Head(ms)), Tail(ms))

\* Every history of n commits that git can hold: a file is added before it
\* is modified, renamed or deleted, and a path names one file at a time.
RECURSIVE Histories(_)
Histories(n) ==
    IF n = 0 THEN {[ms |-> <<>>, files |-> {}]}
    ELSE UNION {
        {[ms |-> Append(h.ms, c), files |-> AfterAll(h.files, c)] :
            c \in CommitChoices(h.files)} : h \in Histories(n - 1)}

\* The commits at positions <= i that touched the file named p after commit i
\* (git blame follows the file back through its renames, down to its addition).
RECURSIVE Touchers(_, _, _)
Touchers(ms, i, p) ==
    IF i = 0 THEN {}
    ELSE LET c == ms[i] IN
         IF \E k \in 1..Len(c) : c[k].change_type = "ADD" /\ c[k].new_path = p
         THEN {AllHashes[i]}
         ELSE IF \E k \in 1..Len(c) : c[k].change_type = "MODIFY" /\ c[k].new_path = p
         THEN {AllHashes[i]} \cup Touchers(ms, i - 1, p)
         ELSE IF \E k \in 1..Len(c) : c[k].change_type = "RENAME" /\ c[k].new_path = p
         THEN LET k == CHOOSE k \in 1..Len(c) :
                           c[k].change_type = "RENAME" /\ c[k].new_path = p
              IN {AllHashes[i]} \cup Touchers(ms, i - 1, c[k].old_path)
         ELSE Touchers(ms, i - 1, p)

\* What get_commits_last_modified_lines can return for one modification of the
\* commit at position i: any set of earlier commits that touched the file.
\* It is consulted only for MODIFY and RENAME changes of fixing commits.
BlameChoices(ms, i, m, fixing) ==
    IF fixing /\ m.change_type \in {"MODIFY", "RENAME"}
    THEN SUBSET Touchers(ms, i - 1, m.old_path)
    ELSE {{}}

RECURSIVE BlameSeqs(_, _, _, _)
BlameSeqs(ms, i, k, fixing) ==
    IF k = 0 THEN {<<>>}
    ELSE {Append(s, b) : s \in BlameSeqs(ms, i, k - 1, fixing),
                         b \in BlameChoices(ms, i, ms[i][k], fixing)}

\* The empty dict.
EmptyDict == [x \in {} |-> None]

\* ---------------------------------------------------------- collaborators
\* filters.is_ansible_file(path): the tracked paths are files of the target
\* language; a missing path (None) is not.
is_ansible_file(path) == path \in ChainPaths

\* git_repo.get_commits_last_modified_lines(commit, modified_file)
\*     .get(modified_file.new_path): the k-th modification of commit sha.
get_commits_last_modified_lines(sha, k) == blame[sha][k]

\* ------------------------------------------------------------ sort_commits
\* sort_commits(commits): the commits of the index that are in the list.
InIndexOrder(S) == SelectSeq(commit_hashes, LAMBDA sha : sha \in S)

\* Mutant of sort_commits: the list keeps its own order and its duplicates.
sort_commits_own_order(commits) == SelectSeq(commits, LAMBDA sha : sha \in Hashes)

\* sort_commits(commits): [sha for sha in self.commit_hashes if sha in commits]
sort_commits(commits) == InIndexOrder(Range(commits))

\* ------------------------------------------ discard_non_iac_fixing_commits
\* any(is_ansible_file(m.new_path) for m in commit.modifications)
TouchesIac(sha) ==
    \E k \in 1..Len(mods[sha]) : is_ansible_file(mods[sha][k].new_path)

\* Mutant of DiscardWalk: the walk stops before the newest candidate.
RECURSIVE DiscardWalkShort(_, _, _)
DiscardWalkShort(commits, i, last) ==
    IF i >= last THEN commits
    ELSE LET sha == commit_hashes[i]
             kept == IF ~TouchesIac(sha) /\ sha \in Range(commits)
                     THEN RemoveAt(commits, Index(commits, sha))
                     ELSE commits
         IN DiscardWalkShort(kept, i + 1, last)

\* The walk from position i to position last, oldest first: a visited commit
\* that touches no IaC file is removed from the list if it is in it.
RECURSIVE DiscardWalk(_, _, _)
DiscardWalk(commits, i, last) ==
    IF i > last THEN commits
    ELSE LET sha == commit_hashes[i]
             kept == IF ~TouchesIac(sha) /\ sha \in Range(commits)
                     THEN RemoveAt(commits, Index(commits, sha))
                     ELSE commits
         IN DiscardWalk(kept, i + 1, last)

\* discard_non_iac_fixing_commits(commits): the list it leaves, and the
\* IndexError of commits[0] when sorting leaves nothing.
discard_non_iac_fixing_commits(commits) ==
    LET sorted == sort_commits(commits) IN
    IF sorted = <<>>
    THEN [commits |-> sorted, err |-> "IndexError"]
    ELSE [commits |-> DiscardWalk(sorted, Pos(sorted[1]), Pos(sorted[Len(sorted)])),
          err |-> "none"]

\* Mutant of ExcludeCommits: nothing is subtracted.
ExcludeCommitsNone(commits) == commits

\* The commits of a list that the caller did not exclude (exclude_commits is
\* subtracted from every discovered set of fixing commits).
ExcludeCommits(commits) == SelectSeq(commits, LAMBDA sha : sha \notin exclude_commits)

\* Mutant of AddFixingCommits: the extended list is not sorted again.
AddFixingCommitsUnsorted(found) ==
    IF found = <<>>
    THEN [fixing_commits |-> fixing_commits, returned |-> found, err |-> "none"]
    ELSE LET d == discard_non_iac_fixing_commits(found)
             kept == ExcludeCommits(d.commits)
         IN
         IF d.err # "none"
         THEN [fixing_commits |-> fixing_commits, returned |-> returned, err |-> d.err]
         ELSE [fixing_commits |-> fixing_commits \o kept,
               returned |-> kept, err |-> "none"]

\* Mutant of AddFixingCommits: what was found replaces the list.
AddFixingCommitsReplace(found) ==
    IF found = <<>>
    THEN [fixing_commits |-> fixing_commits, returned |-> found, err |-> "none"]
    ELSE LET d == discard_non_iac_fixing_commits(found)
             kept == ExcludeCommits(d.commits)
         IN
         IF d.err # "none"
         THEN [fixing_commits |-> fixing_commits, returned |-> returned, err |-> d.err]
         ELSE [fixing_commits |-> sort_commits(kept),
               returned |-> kept, err |-> "none"]

\* The tail shared by both finders: filter what was found, extend
\* self.fixing_commits with it and sort; the finder returns what it found.
AddFixingCommits(found) ==
    IF found = <<>>
    THEN [fixing_commits |-> fixing_commits, returned |-> found, err |-> "none"]
    ELSE LET d == discard_non_iac_fixing_commits(found)
             kept == ExcludeCommits(d.commits)
         IN
         IF d.err # "none"
         THEN [fixing_commits |-> fixing_commits, returned |-> returned, err |-> d.err]
         ELSE [fixing_commits |-> sort_commits(fixing_commits \o kept),
               returned |-> kept, err |-> "none"]

\* ------------------------------------------------------- get_fixing_files
\* Mutant of FixingFile: bic and fic take each other's place.
FixingFileSwapped(filepath, bic, fic) == [filepath |-> filepath, bic |-> fic, fic |-> bic]

\* FixingFile(filepath=..., bic=..., fic=...) as get_fixing_files builds it.
FixingFile(filepath, bic, fic) == [filepath |-> filepath, bic |-> bic, fic |-> fic]

\* FixingFile.__eq__: two fixing files are equal when their paths are.
FixingFileEq(f, g) == f.filepath = g.filepath

\* `x in files` / files.index(x) with FixingFile.__eq__: the first equal one.
IndexOfFile(files, x) ==
    IF \E i \in 1..Len(files) : FixingFileEq(files[i], x)
    THEN CHOOSE i \in 1..Len(files) :
             FixingFileEq(files[i], x) /\ \A j \in 1..(i - 1) : ~FixingFileEq(files[j], x)
    ELSE 0

\* Mutant of TrackRename: the map is written from the new path to the old one.
TrackRenameSwapped(renamed, sha, m) ==
    IF m.change_type # "RENAME" THEN renamed
    ELSE IF m.new_path \in DOMAIN renamed
    THEN DictPut(renamed, m.new_path, renamed[m.new_path])
    ELSE IF sha \in Range(fixing_commits)
    THEN DictPut(renamed, m.new_path, m.old_path)
    ELSE renamed

\* The rename bookkeeping of one modification of commit sha.
TrackRename(renamed, sha, m) ==
    IF m.change_type # "RENAME" THEN renamed
    ELSE IF m.new_path \in DOMAIN renamed
    THEN DictPut(renamed, m.old_path, renamed[m.new_path])
    ELSE IF sha \in Range(fixing_commits)
    THEN DictPut(renamed, m.old_path, m.new_path)
    ELSE renamed

\* Mutant of OldestBic: the newest candidate is taken.
OldestBicNewest(candidates) == InIndexOrder(candidates)[Len(InIndexOrder(candidates))]

\* list(candidates), sort_commits, [0]: bic is the oldest bug-inducing commit
OldestBic(candidates) == InIndexOrder(candidates)[1]

\* Mutant of MergeFix: a fix on a recorded path is never saved as a new entry.
MergeFixNoSplit(files, current_fix) ==
    LET idx == IndexOfFile(files, current_fix) IN
    IF idx = 0 THEN Append(files, current_fix)
    ELSE IF Pos(current_fix.bic) < Pos(files[idx].bic)
    THEN [files EXCEPT ![idx].bic = current_fix.bic]
    ELSE files

\* Mutant of MergeFix: the recorded bic is overwritten without comparing.
MergeFixOverwrite(files, current_fix) ==
    LET idx == IndexOfFile(files, current_fix) IN
    IF idx = 0 THEN Append(files, current_fix)
    ELSE IF Pos(current_fix.fic) < Pos(files[idx].bic)
    THEN Append(files, current_fix)
    ELSE [files EXCEPT ![idx].bic = current_fix.bic]

\* The merge of current_fix into the list of fixing files.
MergeFix(files, current_fix) ==
    LET idx == IndexOfFile(files, current_fix) IN
    IF idx = 0 THEN Append(files, current_fix)
    ELSE LET existing_fix == files[idx] IN
         IF Pos(current_fix.fic) < Pos(existing_fix.bic)
         THEN Append(files, current_fix)
         ELSE IF Pos(current_fix.bic) < Pos(existing_fix.bic)
         THEN [files EXCEPT ![idx].bic = current_fix.bic]
         ELSE files

\* Whether the caller excluded a fixing file: an excluded file names the path
\* and the fixing commit of the entry to drop.
IsExcluded(file) ==
    \E x \in exclude_fixing_files : x.filepath = file.filepath /\ x.fic = file.fic

\* The fixing files the caller did not exclude, in their order
\* (exclude_fixing_files is subtracted from the list before labeling).
ExcludeFixingFiles(files) == SelectSeq(files, LAMBDA file : ~IsExcluded(file))

\* Mutant of ExtractMod: added and deleted files are not skipped.
ExtractModAnyChange(st, sha, k) ==
    LET m == mods[sha][k]
        renamed == TrackRename(st.renamed, sha, m)
        tracked == [st EXCEPT !.renamed = renamed]
        candidates == get_commits_last_modified_lines(sha, k)
    IN
    IF sha \notin Range(fixing_commits) THEN tracked
    ELSE IF ~is_ansible_file(m.new_path) THEN tracked
    ELSE IF candidates = {} THEN tracked
    ELSE IF InIndexOrder(candidates) = <<>>
    THEN [tracked EXCEPT !.err = "IndexError"]
    ELSE LET current_fix == FixingFile(DictGet(renamed, m.new_path, m.new_path),
                                       OldestBic(candidates), sha)
         IN [tracked EXCEPT !.files = MergeFix(st.files, current_fix)]

\* Mutant of ExtractMod: files of any language produce entries.
ExtractModAnyFile(st, sha, k) ==
    LET m == mods[sha][k]
        renamed == TrackRename(st.renamed, sha, m)
        tracked == [st EXCEPT !.renamed = renamed]
        candidates == get_commits_last_modified_lines(sha, k)
    IN
    IF m.change_type \notin {"MODIFY", "RENAME"} THEN st
    ELSE IF sha \notin Range(fixing_commits) THEN tracked
    ELSE IF candidates = {} THEN tracked
    ELSE IF InIndexOrder(candidates) = <<>>
    THEN [tracked EXCEPT !.err = "IndexError"]
    ELSE LET current_fix == FixingFile(DictGet(renamed, m.new_path, m.new_path),
                                       OldestBic(candidates), sha)
         IN [tracked EXCEPT !.files = MergeFix(st.files, current_fix)]

\* One iteration of `for modified_file in commit.modifications`.
ExtractMod(st, sha, k) ==
    LET m == mods[sha][k]
        renamed == TrackRename(st.renamed, sha, m)
        tracked == [st EXCEPT !.renamed = renamed]
        candidates == get_commits_last_modified_lines(sha, k)
    IN
    IF m.change_type \notin {"MODIFY", "RENAME"} THEN st
    ELSE IF sha \notin Range(fixing_commits) THEN tracked
    ELSE IF ~is_ansible_file(m.new_path) THEN tracked
    ELSE IF candidates = {} THEN tracked
    ELSE IF InIndexOrder(candidates) = <<>>
    THEN [tracked EXCEPT !.err = "IndexError"]
    ELSE LET current_fix == FixingFile(DictGet(renamed, m.new_path, m.new_path),
                                       OldestBic(candidates), sha)
         IN [tracked EXCEPT !.files = MergeFix(st.files, current_fix)]

RECURSIVE ExtractMods(_, _, _)
ExtractMods(st, sha, k) ==
    IF k > Len(mods[sha]) \/ st.err # "none" THEN st
    ELSE ExtractMods(ExtractMod(st, sha, k), sha, k + 1)

\* ------------------------------------------------------------------ label
LabeledFile(filepath, commit, fixing_commit) ==
    [filepath |-> filepath, commit |-> commit, label |-> "FAILURE_PRONE",
     fixing_commit |-> fixing_commit]

\* What `yield None` hands to the consumer: an element that is no LabeledFile.
YieldedNone == [value |-> None]

IsLabeledFile(x) == "commit" \in DOMAIN x

\* Mutant of Yield: the consumer receives the newest element first.
YieldFirst(stream, x) == <<x>> \o stream

\* `yield x`: the consumer receives x after everything yielded before it.
Yield(stream, x) == Append(stream, x)

\* Mutant of InWindow: the window closed at its upper end.
InWindowClosed(file, c) == Pos(file.fic) >= c /\ c >= Pos(file.bic)

\* idx_fic > idx_commit >= idx_bic, for the commit at position c
InWindow(file, c) == Pos(file.fic) > c /\ c >= Pos(file.bic)

\* labeling[key].remove(file): the first object of the list equal to file
\* (FixingFile.__eq__) goes; KeyError without the key, ValueError without an
\* equal object.
RemoveFile(st, key, file) ==
    IF key \notin DOMAIN st.labeling THEN [st EXCEPT !.err = "KeyError"]
    ELSE LET group == st.labeling[key]
             at == IndexOfFile([i \in 1..Len(group) |-> st.files[group[i]]], file)
         IN IF at = 0 THEN [st EXCEPT !.err = "ValueError"]
            ELSE [st EXCEPT !.labeling[key] = RemoveAt(group, at)]

\* The body of `for file in files` for the i-th object of the group stored
\* under `key`, at the commit at position c.
LabelEntry(st, c, key, i) ==
    LET file == st.files[st.labeling[key][i]] IN
    IF Pos(file.fic) = 0 \/ Pos(file.bic) = 0 THEN [st EXCEPT !.err = "ValueError"]
    ELSE IF ~InWindow(file, c) THEN st
    ELSE LET yielded == [st EXCEPT !.out = Yield(st.out,
                            LabeledFile(file.filepath, commit_hashes[c], file.fic))]
         IN IF c = Pos(file.bic)
            THEN RemoveFile(yielded, file.filepath, file)
            ELSE yielded

\* `for files in labeling.values(): for file in files:` from the i-th object
\* of the g-th group on. The lists are read as they are when the iterator
\* reaches them, so a removal during the iteration shifts what comes next.
RECURSIVE LabelGroups(_, _, _, _)
LabelGroups(st, c, g, i) ==
    IF st.err # "none" \/ g > Len(labelKeys) THEN st
    ELSE IF i > Len(st.labeling[labelKeys[g]]) THEN LabelGroups(st, c, g + 1, 1)
    ELSE LabelGroups(LabelEntry(st, c, labelKeys[g], i), c, g, i + 1)

\* `for file in list(labeling.get(filepath, list()))` from the j-th object of
\* the copy on: the first object whose window holds the commit is dropped on
\* an addition and renamed on a rename, and the loop breaks.
RECURSIVE HandleRenaming(_, _, _, _, _)
HandleRenaming(st, c, m, copy, j) ==
    IF j > Len(copy) THEN st
    ELSE LET id == copy[j]
             file == st.files[id]
         IN IF Pos(file.fic) = 0 \/ (Pos(file.fic) > c /\ Pos(file.bic) = 0)
            THEN [st EXCEPT !.err = "ValueError"]
            ELSE IF ~InWindow(file, c) THEN HandleRenaming(st, c, m, copy, j + 1)
            ELSE IF m.change_type = "ADD" THEN RemoveFile(st, m.new_path, file)
            ELSE IF m.change_type = "RENAME"
            THEN [st EXCEPT !.files[id].filepath = m.old_path]
            ELSE st

\* `for modified_file in commit.modifications` of label, from the k-th on.
RECURSIVE LabelMods(_, _, _)
LabelMods(st, c, k) ==
    LET ms == mods[commit_hashes[c]] IN
    IF st.err # "none" \/ k > Len(ms) THEN st
    ELSE LabelMods(HandleRenaming(st, c, ms[k],
                                  DictGet(st.labeling, ms[k].new_path, <<>>), 1),
                   c, k + 1)

\* One iteration of the walk of label: the commit at position c.
LabelVisit(st, c) == LabelMods(LabelGroups(st, c, 1, 1), c, 1)

\* labeling.setdefault(file.filepath, list()).append(file), for every file:
\* the keys in the order of their first file, and each key's files in order.
RECURSIVE GroupKeys(_, _)
GroupKeys(files, i) ==
    IF i > Len(files) THEN <<>>
    ELSE IF \E j \in 1..(i - 1) : files[j].filepath = files[i].filepath
    THEN GroupKeys(files, i + 1)
    ELSE <<files[i].filepath>> \o GroupKeys(files, i + 1)

RECURSIVE GroupOf(_, _, _)
GroupOf(files, key, i) ==
    IF i > Len(files) THEN <<>>
    ELSE IF files[i].filepath = key THEN <<i>> \o GroupOf(files, key, i + 1)
    ELSE GroupOf(files, key, i + 1)

BuildLabeling(files) ==
    [key \in Range(GroupKeys(files, 1)) |-> GroupOf(files, key, 1)]

\* ------------------------------------------------------------------- Init
\* The blame answers of the first n commits of the history ms, where `fixing`
\* holds the commits a finder flags.
RECURSIVE BlameHistories(_, _, _)
BlameHistories(ms, n, fixing) ==
    IF n = 0 THEN {<<>>}
    ELSE {Append(bs, b) : bs \in BlameHistories(ms, n - 1, fixing),
                          b \in BlameSeqs(ms, n, Len(ms[n]), AllHashes[n] \in fixing)}

\* The miner right after construction, on a repository whose history, commit
\* messages and blame answers are the inputs.
InitMiner ==
    /\ fixing_commits = <<>>
    /\ fixing_files = <<>>
    /\ renamed_files = EmptyDict
    /\ labelKeys = <<>>
    /\ labeling = EmptyDict
    /\ out = <<>>
    /\ err = "none"
    /\ pc = "idle"
    /\ cur = 0
    /\ runs = 0
    /\ prevOut = <<>>
    /\ prevErr = "none"
    /\ returned = <<>>
    /\ extracted = <<>>

\* Nothing is excluded unless the caller says so.
InitConfig ==
    /\ exclude_commits = {}
    /\ exclude_fixing_files = {}

\* No commit message is under test.
InitText ==
    /\ commit_msg = <<>>
    /\ regex = {}
    /\ matched = "untested"

\* Main.run is not running.
InitRun ==
    /\ defect_prone_files = <<>>
    /\ defect_free_files = <<>>
    /\ unreadable = {}
    /\ broken = {}
    /\ run_pc = "idle"
    /\ release_i = 0
    /\ file_i = 0
    /\ saved = <<>>
    /\ printed = <<>>
    /\ git_ops = <<>>

\* The mine command is not running.
InitCommand ==
    /\ info_to_mine = "fixing-commits"
    /\ include_commits = <<>>
    /\ raises = "none"
    /\ cli_pc = "idle"
    /\ miner_fixing_commits = <<>>
    /\ written = <<>>

\* The miner of iacminer right after construction, not yet asked to mine.
InitVariant ==
    /\ issues = <<>>
    /\ iac_fixing_commits = {}
    /\ iac_fixing_files = <<>>
    /\ iac_renamed_files = EmptyDict
    /\ iac_pc = "idle"
    /\ iac_i = 0
    /\ iac_cur = 0
    /\ iac_err = "none"

\* Main.run has not read the releases.
InitPartition ==
    /\ release_commits = <<>>
    /\ releases_hash = <<>>
    /\ releases_date = <<>>
    /\ commits_hash = <<>>
    /\ releases = <<>>

\* No other program of the repository is running.
InitPrograms == InitCommand /\ InitVariant /\ InitPartition

\* The repository of n commits with the modifications ms, whose messages flag
\* the commits `flagged` and whose blame answers are bs.
Repository(n, ms, flagged, bs) ==
    /\ commit_hashes = SubSeq(AllHashes, 1, n)
    /\ mods = [sha \in Range(SubSeq(AllHashes, 1, n)) |-> ms[Index(AllHashes, sha)]]
    /\ blame = [sha \in Range(SubSeq(AllHashes, 1, n)) |-> bs[Index(AllHashes, sha)]]
    /\ msgFix = flagged
    /\ issueFix = <<>>

\* Every repository of n commits.
InitRepository(n) ==
    \E h \in Histories(n), flagged \in SUBSET Range(SubSeq(AllHashes, 1, n)) :
        \E bs \in BlameHistories(h.ms, n, flagged) :
            Repository(n, h.ms, flagged, bs)

Init == InitRepository(NCommits) /\ maxRuns = 1 /\ InitMiner /\ InitPrograms /\ InitConfig /\ InitText /\ InitRun

\* ---------------------------------------------------------------- actions
\* An exception, or the end of the generator, ends the invocation of mine().
Finish(e) ==
    /\ pc' = "idle"
    /\ err' = e
    /\ runs' = runs + 1

\* The caller invokes mine() and starts consuming what it yields.
Mine ==
    /\ pc = "idle"
    /\ runs < maxRuns
    /\ pc' = "issues"
    /\ out' = <<>>
    /\ err' = "none"
    /\ prevOut' = out
    /\ prevErr' = err
    /\ UNCHANGED <<inputs, programs, aside, fixing_commits, fixing_files, renamed_files, labelKeys,
                   labeling, cur, runs, returned, extracted>>

\* self.get_fixing_commits_from_closed_issues(labels)
GetFixingCommitsFromClosedIssues ==
    /\ pc = "issues"
    /\ LET r == AddFixingCommits(issueFix) IN
       /\ fixing_commits' = r.fixing_commits
       /\ returned' = r.returned
       /\ IF r.err = "none"
          THEN pc' = "messages" /\ UNCHANGED <<err, runs>>
          ELSE Finish(r.err)
    /\ UNCHANGED <<inputs, programs, aside, fixing_files, renamed_files, labelKeys, labeling, out,
                   cur, prevOut, prevErr, extracted>>

\* The commits whose cleaned message matches, in traversal order.
FixesFromMessage == SelectSeq(commit_hashes, LAMBDA sha : sha \in msgFix)

\* self.get_fixing_commits_from_commit_messages(regex)
GetFixingCommitsFromCommitMessages ==
    /\ pc = "messages"
    /\ LET r == AddFixingCommits(FixesFromMessage) IN
       /\ fixing_commits' = r.fixing_commits
       /\ returned' = r.returned
       /\ IF r.err = "none"
          THEN pc' = "get_fixing_files" /\ UNCHANGED <<err, runs>>
          ELSE Finish(r.err)
    /\ UNCHANGED <<inputs, programs, aside, fixing_files, renamed_files, labelKeys, labeling, out,
                   cur, prevOut, prevErr, extracted>>

\* Mutant of NewFixingFiles: the list of the previous extraction is kept.
StaleFixingFiles == fixing_files

\* self.fixing_files = list() at the start of the extraction
NewFixingFiles == <<>>

\* get_fixing_files, up to the start of its walk: nothing to do without
\* fixing commits; otherwise sort them and start from the newest.
GetFixingFiles ==
    /\ pc = "get_fixing_files"
    /\ IF fixing_commits = <<>>
       THEN /\ pc' = "label"
            /\ extracted' = <<>>
            /\ UNCHANGED <<fixing_commits, fixing_files, renamed_files, cur, err, runs>>
       ELSE LET sorted == sort_commits(fixing_commits) IN
            /\ fixing_commits' = sorted
            /\ fixing_files' = NewFixingFiles
            /\ renamed_files' = EmptyDict
            /\ UNCHANGED extracted
            /\ IF sorted = <<>>
               THEN Finish("IndexError") /\ UNCHANGED cur
               ELSE /\ cur' = Pos(sorted[Len(sorted)])
                    /\ pc' = "extract"
                    /\ UNCHANGED <<err, runs>>
    /\ UNCHANGED <<inputs, programs, aside, labelKeys, labeling, out, prevOut, prevErr,
                   returned>>

\* One iteration of the walk of get_fixing_files: the commit at position cur.
ExtractCommit ==
    /\ pc = "extract"
    /\ LET st == ExtractMods([renamed |-> renamed_files, files |-> fixing_files,
                              err |-> "none"], commit_hashes[cur], 1)
       IN /\ renamed_files' = st.renamed
          /\ IF st.err # "none"
             THEN /\ Finish(st.err)
                  /\ fixing_files' = st.files
                  /\ UNCHANGED <<cur, extracted>>
             ELSE IF cur = Pos(fixing_commits[1])
             THEN /\ pc' = "label"
                  /\ fixing_files' = ExcludeFixingFiles(st.files)
                  /\ extracted' = ExcludeFixingFiles(st.files)
                  /\ UNCHANGED <<cur, err, runs>>
             ELSE /\ cur' = cur - 1
                  /\ fixing_files' = st.files
                  /\ UNCHANGED <<pc, err, runs, extracted>>
    /\ UNCHANGED <<inputs, programs, aside, fixing_commits, labelKeys, labeling, out, prevOut,
                   prevErr, returned>>

\* label(), up to the start of its walk.
Label ==
    /\ pc = "label"
    /\ out' = IF fixing_files = <<>> THEN Yield(out, YieldedNone) ELSE out
    /\ labelKeys' = GroupKeys(fixing_files, 1)
    /\ labeling' = BuildLabeling(fixing_files)
    /\ IF fixing_commits = <<>>
       THEN Finish("IndexError") /\ UNCHANGED cur
       ELSE /\ cur' = Pos(fixing_commits[Len(fixing_commits)])
            /\ pc' = "walk"
            /\ UNCHANGED <<err, runs>>
    /\ UNCHANGED <<inputs, programs, aside, fixing_commits, fixing_files, renamed_files, prevOut,
                   prevErr, returned, extracted>>

\* One iteration of the walk of label: the commit at position cur.
LabelCommit ==
    /\ pc = "walk"
    /\ LET st == LabelVisit([labeling |-> labeling, files |-> fixing_files,
                             out |-> out, err |-> "none"], cur)
       IN /\ labeling' = st.labeling
          /\ fixing_files' = st.files
          /\ out' = st.out
          /\ IF st.err # "none" THEN Finish(st.err) /\ UNCHANGED cur
             ELSE IF cur = 1 THEN Finish("none") /\ UNCHANGED cur
             ELSE cur' = cur - 1 /\ UNCHANGED <<pc, err, runs>>
    /\ UNCHANGED <<inputs, programs, aside, fixing_commits, renamed_files, labelKeys, prevOut,
                   prevErr, returned, extracted>>

Next ==
    \/ Mine
    \/ GetFixingCommitsFromClosedIssues
    \/ GetFixingCommitsFromCommitMessages
    \/ GetFixingFiles
    \/ ExtractCommit
    \/ Label
    \/ LabelCommit

Spec == Init /\ [][Next]_vars

\* The caller invokes mine() twice on the same miner and repository.
InitMineTwice ==
    InitRepository(NCommits) /\ maxRuns = 2 /\ InitMiner /\ InitPrograms /\ InitConfig /\ InitText /\ InitRun

SpecMineTwice == InitMineTwice /\ [][Next]_vars

\* The repositories of n commits of the two-episode scenario: exactly two
\* fixing commits f1 < f2 change the same path, blame names the single commit
\* o1 for f1 and the single commit o2 for f2, and o1 < f1 < o2 < f2.
InitEpisodes(n) ==
    \E h \in Histories(n) :
        \E o1 \in 1..n, f1 \in 1..n, o2 \in 1..n, f2 \in 1..n :
            /\ o1 < f1 /\ f1 < o2 /\ o2 < f2
            /\ Len(h.ms[f1]) = 1 /\ Len(h.ms[f2]) = 1
            /\ h.ms[f1][1].change_type \in {"MODIFY", "RENAME"}
            /\ h.ms[f2][1].change_type \in {"MODIFY", "RENAME"}
            /\ h.ms[f1][1].new_path = h.ms[f2][1].new_path
            /\ AllHashes[o1] \in Touchers(h.ms, f1 - 1, h.ms[f1][1].old_path)
            /\ AllHashes[o2] \in Touchers(h.ms, f2 - 1, h.ms[f2][1].old_path)
            /\ Repository(n, h.ms, {AllHashes[f1], AllHashes[f2]},
                          [i \in 1..n |->
                              IF i = f1 THEN <<{AllHashes[o1]}>>
                              ELSE IF i = f2 THEN <<{AllHashes[o2]}>>
                              ELSE [k \in 1..Len(h.ms[i]) |-> {}]])

\* mine() on the two-episode repositories of one commit more than Spec's.
InitTwoEpisodes ==
    InitEpisodes(NCommits + 1) /\ maxRuns = 1 /\ InitMiner /\ InitPrograms /\ InitConfig /\ InitText /\ InitRun

SpecEpisodes == InitTwoEpisodes /\ [][Next]_vars

\* The repositories of n commits with exactly two fixing commits f1 < f2, each
\* changing or renaming one file and each blamed on a single earlier commit
\* of the file's lineage (o1 for f1, o2 for f2).
InitFixPairs(n) ==
    \E h \in Histories(n) :
        \E o1 \in 1..n, f1 \in 1..n, o2 \in 1..n, f2 \in 1..n :
            /\ f1 < f2
            /\ Len(h.ms[f1]) = 1 /\ Len(h.ms[f2]) = 1
            /\ h.ms[f1][1].change_type \in {"MODIFY", "RENAME"}
            /\ h.ms[f2][1].change_type \in {"MODIFY", "RENAME"}
            /\ AllHashes[o1] \in Touchers(h.ms, f1 - 1, h.ms[f1][1].old_path)
            /\ AllHashes[o2] \in Touchers(h.ms, f2 - 1, h.ms[f2][1].old_path)
            /\ Repository(n, h.ms, {AllHashes[f1], AllHashes[f2]},
                          [i \in 1..n |->
                              IF i = f1 THEN <<{AllHashes[o1]}>>
                              ELSE IF i = f2 THEN <<{AllHashes[o2]}>>
                              ELSE [k \in 1..Len(h.ms[i]) |-> {}]])

\* mine() on the two-fix repositories of one commit more than Spec's.
InitTwoFixes ==
    InitFixPairs(NCommits + 1) /\ maxRuns = 1 /\ InitMiner /\ InitPrograms /\ InitConfig /\ InitText /\ InitRun

SpecTwoFixes == InitTwoFixes /\ [][Next]_vars

\* The repositories of n commits with exactly three fixing commits
\* f1 < f2 < f3, each changing or renaming one file and each blamed on a
\* single earlier commit of the file's lineage.
InitFixTriples(n) ==
    \E h \in Histories(n) :
        \E f \in [1..3 -> 1..n], o \in [1..3 -> 1..n] :
            /\ f[1] < f[2] /\ f[2] < f[3]
            /\ \A x \in 1..3 :
                  /\ Len(h.ms[f[x]]) = 1
                  /\ h.ms[f[x]][1].change_type \in {"MODIFY", "RENAME"}
                  /\ AllHashes[o[x]] \in Touchers(h.ms, f[x] - 1, h.ms[f[x]][1].old_path)
            /\ Repository(n, h.ms, {AllHashes[f[x]] : x \in 1..3},
                          [i \in 1..n |->
                              IF \E x \in 1..3 : f[x] = i
                              THEN <<{AllHashes[o[CHOOSE x \in 1..3 : f[x] = i]]}>>
                              ELSE [k \in 1..Len(h.ms[i]) |-> {}]])

\* mine() on the three-fix repositories of one commit more than Spec's.
InitThreeFixes ==
    InitFixTriples(NCommits + 1) /\ maxRuns = 1 /\ InitMiner /\ InitPrograms /\ InitConfig /\ InitText /\ InitRun

SpecThreeFixes == InitThreeFixes /\ [][Next]_vars

\* The modifications a commit can make to a tree holding `files`, with the
\* path names P.
ModChoicesOf(P, files) ==
    {Mod("ADD", None, p) : p \in P \ files}
    \cup {Mod("MODIFY", p, p) : p \in files}
    \cup {Mod("DELETE", p, None) : p \in files}
    \cup {Mod("RENAME", o, n) : o \in files, n \in P \ files}

\* The histories of n commits over the path names P; every commit makes one
\* change.
RECURSIVE HistoriesOf(_, _)
HistoriesOf(P, n) ==
    IF n = 0 THEN {[ms |-> <<>>, files |-> {}]}
    ELSE UNION {
        {[ms |-> Append(h.ms, <<m>>), files |-> After(h.files, m)] :
            m \in ModChoicesOf(P, h.files)} : h \in HistoriesOf(P, n - 1)}

\* The repositories of n commits over three path names, any of them flagged
\* by its message, on which the blame collaborator names no commit: the
\* extraction walk only keeps its rename map.
InitRenames(n) ==
    \E h \in HistoriesOf(ChainPaths, n), flagged \in SUBSET Range(SubSeq(AllHashes, 1, n)) :
        Repository(n, h.ms, flagged, [i \in 1..n |-> <<{}>>])

InitRenameChains ==
    InitRenames(NCommits) /\ maxRuns = 1 /\ InitMiner /\ InitPrograms /\ InitConfig /\ InitText /\ InitRun

SpecRenameChains == InitRenameChains /\ [][Next]_vars

\* What the caller can exclude after a first run: fixing commits that run
\* found, and fixing files it returned (named by path and fixing commit).
ExcludableCommits == SUBSET Range(fixing_commits)

ExcludableFiles ==
    SUBSET {[filepath |-> extracted[i].filepath, fic |-> extracted[i].fic] :
               i \in 1..Len(extracted)}

\* Between two runs the caller resets the list of fixing commits and sets the
\* commits or the fixing files to exclude (as the tests' setUp and bodies do).
SetUp ==
    /\ pc = "idle"
    /\ runs = 1
    /\ runs < maxRuns
    /\ exclude_commits = {} /\ exclude_fixing_files = {}
    /\ \E E \in ExcludableCommits, X \in ExcludableFiles :
          /\ (E # {} /\ X = {}) \/ (E = {} /\ X # {})
          /\ exclude_commits' = E
          /\ exclude_fixing_files' = X
    /\ fixing_commits' = <<>>
    /\ returned' = <<>>
    /\ UNCHANGED <<inputs, programs, text, metrics, fixing_files, renamed_files, labelKeys, labeling, out,
                   err, pc, cur, runs, prevOut, prevErr, extracted>>

NextExclude ==
    \/ Next
    \/ SetUp

\* A run without exclusions, then a run with the exclusions the caller chose.
SpecExclude == InitMineTwice /\ [][NextExclude]_vars

\* A file of the repository that is not of the target language.
OtherPath == "README.md"

\* A commit id that is not in the branch under analysis of n commits.
UnknownCommit(n) == AllHashes[n + 1]

\* commit.modifications of a commit after the first of a repository that
\* holds the IaC file "a" and the other file: it changes one, both or neither.
FinderCommitChoices ==
    {<<>>,
     <<Mod("MODIFY", OtherPath, OtherPath)>>,
     <<Mod("MODIFY", "a", "a")>>,
     <<Mod("MODIFY", OtherPath, OtherPath), Mod("MODIFY", "a", "a")>>}

\* What the blame collaborator answers for a change of commit sha: nothing
\* for the other file; for the IaC file, the answer `b`.
FinderBlame(ms, b) ==
    [k \in 1..Len(ms) |-> IF ms[k].new_path = "a" /\ ms[k].change_type = "MODIFY"
                          THEN b ELSE {}]

\* The repositories of n commits for the finders: the first commit adds both
\* files; the tracker's events name up to two commits in any order, possibly
\* twice the same and possibly one outside the branch; blame answers with the
\* first commit, with a commit outside the branch, with both or with nothing.
InitFinders(n) ==
    \E ms \in [2..n -> FinderCommitChoices],
       flagged \in SUBSET Range(SubSeq(AllHashes, 1, n)),
       b \in SUBSET {AllHashes[1], UnknownCommit(n)},
       events \in {<<>>} \cup {<<x>> : x \in Range(SubSeq(AllHashes, 1, n + 1))}
                 \cup {<<x, y>> : x \in Range(SubSeq(AllHashes, 1, n + 1)),
                                  y \in Range(SubSeq(AllHashes, 1, n + 1))} :
        LET all == [i \in 1..n |->
                       IF i = 1
                       THEN <<Mod("ADD", None, OtherPath), Mod("ADD", None, "a")>>
                       ELSE ms[i]]
        IN /\ commit_hashes = SubSeq(AllHashes, 1, n)
           /\ mods = [sha \in Range(SubSeq(AllHashes, 1, n)) |->
                          all[Index(AllHashes, sha)]]
           /\ blame = [sha \in Range(SubSeq(AllHashes, 1, n)) |->
                           FinderBlame(all[Index(AllHashes, sha)], b)]
           /\ msgFix = flagged
           /\ issueFix = events

\* mine() twice on the finders' repositories of one commit less than Spec's.
InitFindersTwice ==
    InitFinders(NCommits - 1) /\ maxRuns = 2 /\ InitMiner /\ InitPrograms /\ InitConfig /\ InitText /\ InitRun

SpecFinders == InitFindersTwice /\ [][Next]_vars

\* The repositories of n commits on which the blame collaborator has an
\* answer for every change: the first commit adds the IaC file "a" and the
\* other file, every later commit changes one, both or neither, any commits
\* are flagged, and each change is blamed on the commits `b`.
InitBlameAll(n) ==
    \E ms \in [2..n -> FinderCommitChoices],
       flagged \in SUBSET Range(SubSeq(AllHashes, 1, n)),
       b \in SUBSET {AllHashes[1]} :
        LET all == [i \in 1..n |->
                       IF i = 1
                       THEN <<Mod("ADD", None, OtherPath), Mod("ADD", None, "a")>>
                       ELSE ms[i]]
        IN Repository(n, all, flagged,
                      [i \in 1..n |->
                          [k \in 1..Len(all[i]) |->
                              IF all[i][k].change_type = "MODIFY" THEN b ELSE {}]])

InitBlamed ==
    InitBlameAll(NCommits) /\ maxRuns = 1 /\ InitMiner /\ InitPrograms /\ InitConfig /\ InitText /\ InitRun

SpecBlamed == InitBlamed /\ [][Next]_vars

\* The paths a modification names.
PathsOf(m) == {m.old_path, m.new_path} \ {None}

\* commit.modifications of a commit that makes one change, or two changes to
\* different files.
ChangeChoices(files) ==
    {<<m>> : m \in ModChoices(files)}
    \cup UNION {{<<m1, m2>> : m2 \in {m \in ModChoices(After(files, m1)) :
                                         PathsOf(m) \cap PathsOf(m1) = {}}} :
                m1 \in ModChoices(files)}

RECURSIVE HistoriesOfChanges(_)
HistoriesOfChanges(n) ==
    IF n = 0 THEN {[ms |-> <<>>, files |-> {}]}
    ELSE UNION {
        {[ms |-> Append(h.ms, c), files |-> AfterAll(h.files, c)] :
            c \in ChangeChoices(h.files)} : h \in HistoriesOfChanges(n - 1)}

\* A blame collaborator that answers for every kind of change: for an added
\* file the commits before the addition, for any other change the earlier
\* commits that touched the file.
BlameAnyChange(ms, i, m) ==
    IF m.change_type = "ADD"
    THEN Range(SubSeq(AllHashes, 1, i - 1))
    ELSE Touchers(ms, i - 1, m.old_path)

\* The repositories of n commits of one or two changes each, any of them
\* flagged by its message, whose blame collaborator answers for every change.
InitChanges(n) ==
    \E h \in HistoriesOfChanges(n), flagged \in SUBSET Range(SubSeq(AllHashes, 1, n)) :
        Repository(n, h.ms, flagged,
                   [i \in 1..n |->
                       [k \in 1..Len(h.ms[i]) |-> BlameAnyChange(h.ms, i, h.ms[i][k])]])

\* mine() on these repositories of one commit less than Spec's.
InitAnyChange ==
    InitChanges(NCommits - 1) /\ maxRuns = 1 /\ InitMiner /\ InitPrograms /\ InitConfig /\ InitText /\ InitRun

SpecAnyChange == InitAnyChange /\ [][Next]_vars

\* The lists of up to n commits over the commits S, in any order and with
\* repetitions.
RECURSIVE ListsUpTo(_, _)
ListsUpTo(S, n) ==
    IF n = 0 THEN {<<>>}
    ELSE ListsUpTo(S, n - 1) \cup [1..n -> S]

\* The caller has set fixing_commits itself (as the --include-commits option
\* of the command line does) to a list in any order, with repetitions and
\* with commits that are not in the branch, and calls get_fixing_files and
\* label; afterwards it calls mine().
InitSortCommits ==
    /\ InitBlameAll(NCommits - 1)
    /\ maxRuns = 2
    /\ include_commits \in ListsUpTo(Range(SubSeq(AllHashes, 1, NCommits)), NCommits)
    /\ fixing_commits = include_commits
    /\ fixing_files = <<>>
    /\ renamed_files = EmptyDict
    /\ labelKeys = <<>>
    /\ labeling = EmptyDict
    /\ out = <<>>
    /\ err = "none"
    /\ pc = "get_fixing_files"
    /\ cur = 0
    /\ runs = 0
    /\ prevOut = <<>>
    /\ prevErr = "none"
    /\ returned = <<>>
    /\ extracted = <<>>
    /\ info_to_mine = "fixed-files"
    /\ raises = "none"
    /\ cli_pc = "idle"
    /\ miner_fixing_commits = <<>>
    /\ written = <<>>
    /\ InitVariant /\ InitPartition /\ InitConfig /\ InitText /\ InitRun

SpecSortCommits == InitSortCommits /\ [][Next]_vars

\* ------------------------------------------- matching of a commit message
\* A message is a sequence of characters. \w matches every character of the
\* modelled messages but the blank.
IsWordChar(c) == c # " "

\* str.lower() / re.IGNORECASE on the letters of the modelled messages.
LowerChar(c) ==
    CASE c = "B" -> "b" [] c = "U" -> "u" [] c = "G" -> "g"
      [] c = "F" -> "f" [] c = "I" -> "i" [] c = "X" -> "x"
      [] OTHER -> c

lower(s) == [i \in 1..Len(s) |-> LowerChar(s[i])]

\* The words of the pattern (\w+(bug|fix)\w)*
StripWords == {<<"b", "u", "g">>, <<"f", "i", "x">>}

\* s has the word w at position i.
HasAt(s, i, w) ==
    /\ i + Len(w) - 1 <= Len(s)
    /\ \A k \in 1..Len(w) : s[i + k - 1] = w[k]

\* Where one \w+(bug|fix)\w that starts at position i can end: one or more
\* word characters, a word of the pattern in any letter case, one word
\* character.
BlockEnds(s, i) ==
    {e \in 1..Len(s) :
        \E j \in (i + 1)..Len(s), w \in StripWords :
            /\ e = j + Len(w)
            /\ \A q \in i..(j - 1) : IsWordChar(s[q])
            /\ HasAt(lower(s), j, w)
            /\ IsWordChar(s[e])}

\* p.match(msg): the pattern is tried at the start of the message; \w+ and
\* the star are greedy, so each repetition ends as far as it can. The value
\* is the position of the last matched character (0: the empty match).
RECURSIVE LeadingRun(_, _)
LeadingRun(s, i) ==
    IF BlockEnds(s, i) = {} THEN i - 1
    ELSE LeadingRun(s, 1 + CHOOSE e \in BlockEnds(s, i) :
                              \A f \in BlockEnds(s, i) : f <= e)

\* match.group()
MatchGroup(s) == SubSeq(s, 1, LeadingRun(s, 1))

\* re.sub(g, '', s) for a g of word characters: every occurrence of g goes,
\* from left to right; the empty g removes nothing.
RECURSIVE ReSub(_, _)
ReSub(g, s) ==
    IF g = <<>> \/ Len(s) < Len(g) THEN s
    ELSE IF HasAt(s, 1, g) THEN ReSub(g, SubSeq(s, Len(g) + 1, Len(s)))
    ELSE <<s[1]>> \o ReSub(g, Tail(s))

\* re.match(regex, s) for a regex that is an alternation of words: one of
\* them at the start of s.
ReMatch(words, s) == \E w \in words : HasAt(s, 1, w)

\* The body of the loop of get_fixing_commits_from_commit_messages for one
\* commit: whether its hash is appended to fixes_from_message.
IsFixMessage(words, commit) ==
    LET msg == ReSub(MatchGroup(commit), commit) IN ReMatch(words, lower(msg))

\* The regex (bug|fix|error|crash|problem|fail|defect|patch)
DefaultRegex ==
    {<<"b", "u", "g">>, <<"f", "i", "x">>, <<"e", "r", "r", "o", "r">>,
     <<"c", "r", "a", "s", "h">>, <<"p", "r", "o", "b", "l", "e", "m">>,
     <<"f", "a", "i", "l">>, <<"d", "e", "f", "e", "c", "t">>,
     <<"p", "a", "t", "c", "h">>}

\* A caller's regex in capital letters: (BUG|FIX)
CapitalRegex == {<<"B", "U", "G">>, <<"F", "I", "X">>}

\* The fragments the modelled messages are made of.
Fragments ==
    {<<"d", "e">>, <<"b", "u", "g">>, <<"B", "U", "G">>, <<"f", "i", "x">>,
     <<"g">>, <<" ">>, <<"e", "r", "r", "o", "r">>}

\* The messages of at most n fragments.
RECURSIVE Messages(_)
Messages(n) ==
    IF n = 0 THEN {<<>>}
    ELSE Messages(n - 1) \cup {m \o f : m \in Messages(n - 1), f \in Fragments}

\* A miner of a repository without commits: the matching of one message
\* does not depend on it.
NoRepository ==
    /\ commit_hashes = <<>>
    /\ mods = EmptyDict
    /\ blame = EmptyDict
    /\ msgFix = {}
    /\ issueFix = <<>>
    /\ maxRuns = 0

InitMessages ==
    /\ commit_msg \in Messages(MaxFragments)
    /\ regex \in {DefaultRegex, CapitalRegex}
    /\ matched = "untested"
    /\ NoRepository /\ InitMiner /\ InitPrograms /\ InitConfig /\ InitRun

\* One iteration of the loop over the commits.
MatchCommitMessage ==
    /\ matched = "untested"
    /\ matched' = IF IsFixMessage(regex, commit_msg) THEN "appended" ELSE "skipped"
    /\ UNCHANGED <<inputs, programs, config, metrics, commit_msg, regex, fixing_commits, fixing_files,
                   renamed_files, labelKeys, labeling, out, err, pc, cur, runs,
                   prevOut, prevErr, returned, extracted>>

NextMessages == MatchCommitMessage

SpecMessages == InitMessages /\ [][NextMessages]_vars

\* ------------------------------------------------- the metrics stage (Main)
\* The releases, oldest first, each named by its position.
Releases == 1..NReleases

\* The files a release can list.
ReleaseFiles == {"a.yml", "b.yml"}

\* The lists of files of a release: no file twice.
FileLists ==
    {<<>>} \cup {<<f>> : f \in ReleaseFiles}
           \cup {l \in [1..2 -> ReleaseFiles] : l[1] # l[2]}

\* dict.get(key, []) on a dict modelled as a function on its keys.
Get(dict, key) == IF key \in DOMAIN dict THEN dict[key] ELSE <<>>

\* The dicts from releases to lists of files.
FileDicts == UNION {[K -> FileLists] : K \in SUBSET Releases}

\* all_keys of the loop over the releases.
all_keys == (DOMAIN defect_prone_files) \cup (DOMAIN defect_free_files)

\* The try statement around one file without its except branch: the
\* exception of an unreadable file leaves the loop.
MeasureFileUncaught(release, filepath, defective) ==
    IF <<release, filepath>> \in unreadable
    THEN [saved |-> saved, printed |-> printed, raised |-> TRUE]
    ELSE [saved |-> Append(saved, [release_end |-> release, filepath |-> filepath,
                                    defective |-> defective]),
          printed |-> printed, raised |-> FALSE]

\* The try statement around one file: get_content, mine_product_metrics and
\* save; every exception is caught and reported by print.
MeasureFile(release, filepath, defective) ==
    IF <<release, filepath>> \in unreadable
    THEN [saved |-> saved, printed |-> Append(printed, filepath), raised |-> FALSE]
    ELSE [saved |-> Append(saved, [release_end |-> release, filepath |-> filepath,
                                    defective |-> defective]),
          printed |-> printed, raised |-> FALSE]

InitMain ==
    /\ defect_prone_files \in FileDicts
    /\ defect_free_files \in FileDicts
    /\ unreadable \in SUBSET (Releases \X ReleaseFiles)
    /\ \A u \in unreadable :
          u[2] \in Range(Get(defect_prone_files, u[1])) \cup Range(Get(defect_free_files, u[1]))
    /\ broken \in {{}} \cup {{r} : r \in all_keys}
    /\ run_pc = "start"
    /\ release_i = 0
    /\ file_i = 0
    /\ saved = <<>>
    /\ printed = <<>>
    /\ git_ops = <<>>
    /\ NoRepository /\ InitMiner /\ InitPrograms /\ InitConfig /\ InitText

\* Main.run up to the loop over the releases.
MineCommits ==
    /\ run_pc = "start"
    /\ run_pc' = "release"
    /\ release_i' = 1
    /\ UNCHANGED <<inputs, programs, config, text, miner, defect_prone_files, defect_free_files,
                   unreadable, broken, file_i, saved, printed, git_ops>>

\* The head of the loop over the releases: a release without files is
\* skipped; mine_process_metrics and checkout are outside every try.
EnterRelease ==
    /\ run_pc = "release"
    /\ release_i <= NReleases
    /\ IF release_i \notin all_keys
       THEN /\ release_i' = release_i + 1
            /\ UNCHANGED <<run_pc, file_i, git_ops>>
       ELSE IF release_i \in broken
       THEN /\ run_pc' = "raised"
            /\ UNCHANGED <<release_i, file_i, git_ops>>
       ELSE /\ git_ops' = Append(git_ops, [op |-> "checkout", release |-> release_i])
            /\ run_pc' = "prone"
            /\ file_i' = 1
            /\ UNCHANGED release_i
    /\ UNCHANGED <<inputs, programs, config, text, miner, defect_prone_files, defect_free_files,
                   unreadable, broken, saved, printed>>

\* One turn of the loop over the defect-prone files of the release.
MeasureProne ==
    /\ run_pc = "prone"
    /\ LET files == Get(defect_prone_files, release_i) IN
       IF file_i > Len(files)
       THEN /\ run_pc' = "free"
            /\ file_i' = 1
            /\ UNCHANGED <<saved, printed>>
       ELSE LET res == MeasureFile(release_i, files[file_i], "yes") IN
            /\ saved' = res.saved
            /\ printed' = res.printed
            /\ run_pc' = IF res.raised THEN "raised" ELSE run_pc
            /\ file_i' = file_i + 1
    /\ UNCHANGED <<inputs, programs, config, text, miner, defect_prone_files, defect_free_files,
                   unreadable, broken, release_i, git_ops>>

\* One turn of the loop over the defect-free files of the release.
MeasureFree ==
    /\ run_pc = "free"
    /\ LET files == Get(defect_free_files, release_i) IN
       IF file_i > Len(files)
       THEN /\ run_pc' = "reset"
            /\ UNCHANGED <<file_i, saved, printed>>
       ELSE LET res == MeasureFile(release_i, files[file_i], "no") IN
            /\ saved' = res.saved
            /\ printed' = res.printed
            /\ run_pc' = IF res.raised THEN "raised" ELSE run_pc
            /\ file_i' = file_i + 1
    /\ UNCHANGED <<inputs, programs, config, text, miner, defect_prone_files, defect_free_files,
                   unreadable, broken, release_i, git_ops>>

\* The end of the body of the loop over the releases.
ResetRelease ==
    /\ run_pc = "reset"
    /\ git_ops' = Append(git_ops, [op |-> "reset", release |-> release_i])
    /\ release_i' = release_i + 1
    /\ run_pc' = "release"
    /\ UNCHANGED <<inputs, programs, config, text, miner, defect_prone_files, defect_free_files,
                   unreadable, broken, file_i, saved, printed>>

\* After the loop over the releases.
CleanUp ==
    /\ run_pc = "release"
    /\ release_i > NReleases
    /\ git_ops' = git_ops \o <<[op |-> "clear", release |-> 0],
                               [op |-> "delete_repo", release |-> 0]>>
    /\ run_pc' = "done"
    /\ UNCHANGED <<inputs, programs, config, text, miner, defect_prone_files, defect_free_files,
                   unreadable, broken, release_i, file_i, saved, printed>>

NextMain ==
    \/ MineCommits
    \/ EnterRelease
    \/ MeasureProne
    \/ MeasureFree
    \/ ResetRelease
    \/ CleanUp

SpecMain == InitMain /\ [][NextMain]_vars

\* ------------------------------------------ the releases of Main.run
\* str(commit.committer_date) of a release commit.
DateOf(sha) == <<"date", sha>>

\* Release(start, end, date)
Release(start, end, date) == [start |-> start, end |-> end, date |-> date]

\* The lists of up to n distinct commits over the commits S.
RECURSIVE DistinctLists(_, _)
DistinctLists(S, n) ==
    IF n = 0 THEN {<<>>}
    ELSE LET shorter == DistinctLists(S, n - 1) IN
         shorter \cup UNION {{Append(l, x) : x \in S \ Range(l)} :
                                l \in {l \in shorter : Len(l) = n - 1}}

\* Mutant of DelThrough: the release commit stays in the list.
DelBefore(list, idx) == SubSeq(list, idx, Len(list))

\* del commits_hash[:idx+1], where idx is the 1-based position of hash
DelThrough(list, idx) == SubSeq(list, idx + 1, Len(list))

\* Main.run has filled releases_hash, releases_date and commits_hash: the
\* branch has n commits and up to NReleases + 1 release commits, in any order
\* and possibly one that is not a commit of the branch.
InitReleases(n) ==
    /\ release_commits \in DistinctLists(Range(SubSeq(AllHashes, 1, n + 1)), NReleases + 1)
    /\ releases_hash = release_commits
    /\ releases_date = [i \in 1..Len(release_commits) |-> DateOf(release_commits[i])]
    /\ commits_hash = SubSeq(AllHashes, 1, n)
    /\ releases = <<>>
    /\ commit_hashes = SubSeq(AllHashes, 1, n)
    /\ mods = EmptyDict
    /\ blame = EmptyDict
    /\ msgFix = {}
    /\ issueFix = <<>>
    /\ maxRuns = 0

InitPartitionLoop ==
    /\ InitReleases(NCommits)
    /\ defect_prone_files = <<>>
    /\ defect_free_files = <<>>
    /\ unreadable = {}
    /\ broken = {}
    /\ run_pc = "while"
    /\ release_i = 0
    /\ file_i = 0
    /\ saved = <<>>
    /\ printed = <<>>
    /\ git_ops = <<>>
    /\ InitMiner /\ InitCommand /\ InitVariant /\ InitConfig /\ InitText

\* One turn of `while releases_hash`: commits_hash.index(hash) raises when
\* the release commit is not in what is left of commits_hash.
PopRelease ==
    /\ run_pc = "while"
    /\ releases_hash # <<>>
    /\ LET hash == Head(releases_hash)
           date == Head(releases_date)
           idx == Index(commits_hash, hash)
       IN /\ releases_hash' = Tail(releases_hash)
          /\ releases_date' = Tail(releases_date)
          /\ IF idx = 0
             THEN run_pc' = "raised" /\ UNCHANGED <<releases, commits_hash>>
             ELSE /\ releases' = Append(releases,
                                        Release(commits_hash[1], commits_hash[idx], date))
                  /\ commits_hash' = DelThrough(commits_hash, idx)
                  /\ UNCHANGED run_pc
    /\ UNCHANGED <<inputs, config, text, miner, command, variant, release_commits,
                   defect_prone_files, defect_free_files, unreadable, broken, release_i,
                   file_i, saved, printed, git_ops>>

\* The loop ends when releases_hash is empty.
EndWhile ==
    /\ run_pc = "while"
    /\ releases_hash = <<>>
    /\ run_pc' = "mine"
    /\ UNCHANGED <<inputs, config, text, miner, command, variant, partition,
                   defect_prone_files, defect_free_files, unreadable, broken, release_i,
                   file_i, saved, printed, git_ops>>

NextPartition ==
    \/ PopRelease
    \/ EndWhile

SpecPartition == InitPartitionLoop /\ [][NextPartition]_vars

\* ------------------------------------------- the mine command (repominer)
\* The values of the positional argument info_to_mine.
InfoChoices == {"fixing-commits", "fixed-files", "failure-prone-files"}

\* The commit ids the miner of the command can report.
CliCommits == {AllHashes[1], AllHashes[2]}

\* The lists of distinct commits over CliCommits.
CommitLists ==
    {<<>>} \cup {<<x>> : x \in CliCommits}
    \cup {l \in [1..2 -> CliCommits] : l[1] # l[2]}

\* json.dump(content, f) into the file `name` of the destination folder.
Written(name, content) == [name |-> name, content |-> content]

\* Mutant of WantsFixedFiles: the phase runs only when fixed-files is asked.
WantsFixedFilesOnly(info) == info = "fixed-files"

\* if args.info_to_mine in ('fixed-files', 'failure-prone-files')
WantsFixedFiles(info) == info \in {"fixed-files", "failure-prone-files"}

\* if args.info_to_mine == 'failure-prone-files'
WantsFailureProne(info) == info = "failure-prone-files"

\* The command starts on a new miner; any call of the miner may raise.
InitMineCommand ==
    /\ info_to_mine \in InfoChoices
    /\ include_commits \in CommitLists
    /\ raises \in {"none"} \cup InfoChoices
    /\ cli_pc = "mine_fixing_commits"
    /\ miner_fixing_commits = <<>>
    /\ written = <<>>
    /\ NoRepository /\ InitMiner /\ InitVariant /\ InitPartition /\ InitConfig /\ InitText /\ InitRun

\* mine_fixing_commits: the included commits are loaded, the two finders
\* add what they find, and miner.fixing_commits is dumped.
MineFixingCommits ==
    /\ cli_pc = "mine_fixing_commits"
    /\ IF raises = "fixing-commits"
       THEN /\ cli_pc' = "raised"
            /\ miner_fixing_commits' = include_commits
            /\ UNCHANGED written
       ELSE \E found \in CommitLists :
              LET all == include_commits \o
                         SelectSeq(found, LAMBDA sha : sha \notin Range(include_commits))
              IN /\ miner_fixing_commits' = all
                 /\ written' = Append(written, Written("fixing-commits.json", all))
                 /\ cli_pc' = "after_fixing_commits"
    /\ UNCHANGED <<inputs, config, text, miner, metrics, variant, partition, info_to_mine, include_commits, raises>>

\* mine(): the test before mine_fixed_files.
AfterFixingCommits ==
    /\ cli_pc = "after_fixing_commits"
    /\ cli_pc' = IF WantsFixedFiles(info_to_mine) THEN "mine_fixed_files"
                 ELSE "after_fixed_files"
    /\ UNCHANGED <<inputs, config, text, miner, metrics, variant, partition, info_to_mine, include_commits, raises,
                   miner_fixing_commits, written>>

\* mine_fixed_files: miner.get_fixed_files() works on the miner's fixing
\* commits, and what it returns is dumped; `of` records the fixing commits
\* the miner held at the call.
MineFixedFiles ==
    /\ cli_pc = "mine_fixed_files"
    /\ IF raises = "fixed-files"
       THEN cli_pc' = "raised" /\ UNCHANGED written
       ELSE \E fixed \in SUBSET Range(miner_fixing_commits) :
              /\ written' = Append(written,
                      Written("fixed-files.json",
                              [fics |-> fixed, of |-> miner_fixing_commits]))
              /\ cli_pc' = "after_fixed_files"
    /\ UNCHANGED <<inputs, config, text, miner, metrics, variant, partition, info_to_mine, include_commits, raises,
                   miner_fixing_commits>>

\* mine(): the test before mine_failure_prone_files.
AfterFixedFiles ==
    /\ cli_pc = "after_fixed_files"
    /\ cli_pc' = IF WantsFailureProne(info_to_mine) THEN "mine_failure_prone_files"
                 ELSE "exit"
    /\ UNCHANGED <<inputs, config, text, miner, metrics, variant, partition, info_to_mine, include_commits, raises,
                   miner_fixing_commits, written>>

\* mine_failure_prone_files: the labels of miner.label() are dumped.
MineFailureProneFiles ==
    /\ cli_pc = "mine_failure_prone_files"
    /\ IF raises = "failure-prone-files"
       THEN cli_pc' = "raised" /\ UNCHANGED written
       ELSE \E labeled \in SUBSET Range(miner_fixing_commits) :
              /\ written' = Append(written, Written("failure-prone-files.json", labeled))
              /\ cli_pc' = "exit"
    /\ UNCHANGED <<inputs, config, text, miner, metrics, variant, partition, info_to_mine, include_commits, raises,
                   miner_fixing_commits>>

NextCommand ==
    \/ MineFixingCommits
    \/ AfterFixingCommits
    \/ MineFixedFiles
    \/ AfterFixedFiles
    \/ MineFailureProneFiles

SpecCommand == InitMineCommand /\ [][NextCommand]_vars

\* --------------------------------------------------- the miner of iacminer
\* One event of an issue: its name and the commit it refers to, if any.
Event(e, c) == [event |-> e, commit_id |-> c]

\* e.event.lower() on the event names of the modelled issues.
EventLower(e) ==
    CASE e = "Closed" -> "closed" [] e = "Merged" -> "merged" [] OTHER -> e

\* (is_merged or is_closed) and e.commit_id
NamesFixingCommit(e) ==
    EventLower(e.event) \in {"merged", "closed"} /\ e.commit_id # None

\* The events an issue can carry: closed by a commit of the branch, closed
\* without a commit, merged by a commit outside the branch, or referenced.
EventChoices(n) ==
    {Event("Closed", AllHashes[1]), Event("closed", None),
     Event("merged", UnknownCommit(n)), Event("referenced", AllHashes[2])}

\* issue.get_events() of one issue: no event, or one.
IssueChoices(n) == {<<>>} \cup {<<e>> : e \in EventChoices(n)}

\* The closed bug issues of a repository: none, one or two.
IssueLists(n) ==
    {<<>>} \cup {<<x>> : x \in IssueChoices(n)}
    \cup {<<x, y>> : x \in IssueChoices(n), y \in IssueChoices(n)}

\* mine() starts: set_fixing_commits is entered with an empty set.
StartVariant ==
    /\ iac_fixing_commits = {}
    /\ iac_fixing_files = <<>>
    /\ iac_renamed_files = EmptyDict
    /\ iac_pc = "issues"
    /\ iac_i = 1
    /\ iac_cur = 0
    /\ iac_err = "none"

\* The repositories of n commits without tracked changes, with any closed
\* issues and any commits whose cleaned message matches.
InitIssues(n) ==
    /\ issues \in IssueLists(n)
    /\ \E flagged \in SUBSET Range(SubSeq(AllHashes, 1, n)) :
          Repository(n, [i \in 1..n |-> <<>>], flagged, [i \in 1..n |-> <<>>])
    /\ maxRuns = 0

InitSetFixingCommits ==
    /\ InitIssues(NCommits - 1) /\ StartVariant
    /\ InitMiner /\ InitCommand /\ InitPartition /\ InitConfig /\ InitText /\ InitRun

\* One turn of `for issue in issues` of set_fixing_commits: an issue without
\* events returns from set_fixing_commits.
IssueEvents ==
    /\ iac_pc = "issues"
    /\ IF iac_i > Len(issues)
       THEN /\ iac_pc' = "messages"
            /\ UNCHANGED <<iac_fixing_commits, iac_i>>
       ELSE IF issues[iac_i] = <<>>
       THEN /\ iac_pc' = "after_set_fixing_commits"
            /\ UNCHANGED <<iac_fixing_commits, iac_i>>
       ELSE /\ iac_fixing_commits' = iac_fixing_commits \cup
                    {issues[iac_i][k].commit_id : k \in
                        {j \in 1..Len(issues[iac_i]) : NamesFixingCommit(issues[iac_i][j])}}
            /\ iac_i' = iac_i + 1
            /\ UNCHANGED iac_pc
    /\ UNCHANGED <<inputs, config, text, miner, metrics, command, partition, issues, iac_fixing_files,
                   iac_renamed_files, iac_cur, iac_err>>

\* The loop over the commits of the branch of set_fixing_commits: every
\* commit not yet in the set whose cleaned message matches is added.
CommitMessages ==
    /\ iac_pc = "messages"
    /\ iac_fixing_commits' = iac_fixing_commits \cup
            {sha \in Range(commit_hashes) : sha \notin iac_fixing_commits /\ sha \in msgFix}
    /\ iac_pc' = "after_set_fixing_commits"
    /\ UNCHANGED <<inputs, config, text, miner, metrics, command, partition, issues, iac_fixing_files,
                   iac_renamed_files, iac_i, iac_cur, iac_err>>

\* sorted_fixing_commits of get_fixing_files.
sorted_fixing_commits == InIndexOrder(iac_fixing_commits)

\* mine() after set_fixing_commits, and get_fixing_files up to its walk.
VariantGetFixingFiles ==
    /\ iac_pc = "after_set_fixing_commits"
    /\ iac_fixing_files' = <<>>
    /\ iac_renamed_files' = EmptyDict
    /\ IF iac_fixing_commits = {} \/ sorted_fixing_commits = <<>>
       THEN iac_pc' = "done" /\ UNCHANGED iac_cur
       ELSE /\ iac_cur' = Pos(sorted_fixing_commits[Len(sorted_fixing_commits)])
            /\ iac_pc' = "walk"
    /\ UNCHANGED <<inputs, config, text, miner, metrics, command, partition, issues, iac_fixing_commits,
                   iac_i, iac_err>>

\* FixingFile(filepath, bics, fic) of iacminer.
VariantFixingFile(filepath, bics, fic) == [filepath |-> filepath, bics |-> bics, fic |-> fic]

\* The rename bookkeeping of one modification of commit sha.
VariantTrackRename(renamed, sha, m) ==
    IF m.change_type # "RENAME" THEN renamed
    ELSE IF m.new_path \in DOMAIN renamed
    THEN DictPut(renamed, m.old_path, renamed[m.new_path])
    ELSE IF sha \in iac_fixing_commits
    THEN DictPut(renamed, m.old_path, m.new_path)
    ELSE renamed

\* Mutant of MergesInto: the bics are compared with the bics of the entry.
MergesIntoByBic(existing, fix) ==
    \E bic \in fix.bics : \E old \in existing.bics : Pos(bic) <= Pos(old)

\* any(index(bic) <= index(fixing_files[idx].fic) for bic in fix.bics)
MergesInto(existing, fix) == \E bic \in fix.bics : Pos(bic) <= Pos(existing.fic)

\* `if fix in fixing_files: ... else: fixing_files.append(fix)`. The blame
\* answers of the modelled repositories are commits of the branch.
VariantMerge(files, fix) ==
    LET idx == IndexOfFile(files, fix) IN
    IF idx = 0 THEN Append(files, fix)
    ELSE IF MergesInto(files[idx], fix)
    THEN [files EXCEPT ![idx].bics = files[idx].bics \cup fix.bics]
    ELSE Append(files, fix)

\* One iteration of `for modified_file in commit.modifications`.
VariantMod(st, sha, k) ==
    LET m == mods[sha][k]
        renamed == VariantTrackRename(st.renamed, sha, m)
        tracked == [st EXCEPT !.renamed = renamed]
        buggy_inducing_commits == get_commits_last_modified_lines(sha, k)
    IN
    IF m.change_type \notin {"MODIFY", "RENAME"} THEN st
    ELSE IF sha \notin iac_fixing_commits THEN tracked
    ELSE IF ~is_ansible_file(m.new_path) THEN tracked
    ELSE IF buggy_inducing_commits = {} THEN tracked
    ELSE [tracked EXCEPT !.files =
              VariantMerge(st.files,
                  VariantFixingFile(DictGet(renamed, m.new_path, m.new_path),
                                    buggy_inducing_commits, sha))]

RECURSIVE VariantMods(_, _, _)
VariantMods(st, sha, k) ==
    IF k > Len(mods[sha]) THEN st
    ELSE VariantMods(VariantMod(st, sha, k), sha, k + 1)

\* One iteration of the walk of get_fixing_files: the commit at position
\* iac_cur. A commit that changes no Ansible file leaves the fixing commits.
VariantCommit ==
    /\ iac_pc = "walk"
    /\ LET sha == commit_hashes[iac_cur]
           first_fix == sorted_fixing_commits[1]
       IN /\ IF ~\E k \in 1..Len(mods[sha]) : is_ansible_file(mods[sha][k].new_path)
             THEN /\ iac_fixing_commits' = iac_fixing_commits \ {sha}
                  /\ UNCHANGED <<iac_fixing_files, iac_renamed_files>>
             ELSE LET st == VariantMods([renamed |-> iac_renamed_files,
                                         files |-> iac_fixing_files], sha, 1)
                  IN /\ iac_fixing_files' = st.files
                     /\ iac_renamed_files' = st.renamed
                     /\ UNCHANGED iac_fixing_commits
          /\ IF iac_cur = Pos(first_fix)
             THEN iac_pc' = "done" /\ UNCHANGED iac_cur
             ELSE iac_cur' = iac_cur - 1 /\ UNCHANGED iac_pc
    /\ UNCHANGED <<inputs, config, text, miner, metrics, command, partition, issues, iac_i, iac_err>>

NextVariant ==
    \/ IssueEvents
    \/ CommitMessages
    \/ VariantGetFixingFiles
    \/ VariantCommit

SpecSetFixingCommits == InitSetFixingCommits /\ [][NextVariant]_vars

\* What the blame collaborator can answer for one modification of the commit
\* at position i of a history of n commits: nothing, the earlier commits that
\* touched the file, or any single commit of the branch.
VariantBlameChoices(ms, n, i, m) ==
    IF m.change_type \in {"MODIFY", "RENAME"}
    THEN {{}, Touchers(ms, i - 1, m.old_path)} \cup {{AllHashes[j]} : j \in 1..n}
    ELSE {{}}

\* The blame answers of the first k commits of the history ms of n commits.
RECURSIVE VariantBlameHistories(_, _, _)
VariantBlameHistories(ms, n, k) ==
    IF k = 0 THEN {<<>>}
    ELSE {Append(bs, b) :
             bs \in VariantBlameHistories(ms, n, k - 1),
             b \in IF ms[k] = <<>> THEN {<<>>}
                   ELSE {<<x>> : x \in VariantBlameChoices(ms, n, k, ms[k][1])}}

\* The repositories of n commits of at most one change each, with these
\* blame answers, no closed issue and any commits flagged by their message.
InitVariantRepository(n) ==
    /\ issues = <<>>
    /\ \E h \in Histories(n), flagged \in SUBSET Range(SubSeq(AllHashes, 1, n)) :
          \E bs \in VariantBlameHistories(h.ms, n, n) :
              Repository(n, h.ms, flagged, bs)
    /\ maxRuns = 0

InitVariantFiles ==
    /\ InitVariantRepository(NCommits) /\ StartVariant
    /\ InitMiner /\ InitCommand /\ InitPartition /\ InitConfig /\ InitText /\ InitRun

SpecVariantFiles == InitVariantFiles /\ [][NextVariant]_vars

\* ------------------------------------------------------------- the claims
\* mine() has run to its end, or to the exception that ended it.
Completed == pc = "idle" /\ runs >= 1

\* The modifications of the history by position.
ModsSeq == [i \in 1..Len(commit_hashes) |-> mods[commit_hashes[i]]]

\* The elements of the stream labeled for the fixing commit fic.
LabelsOf(fic) ==
    {k \in 1..Len(out) : IsLabeledFile(out[k]) /\ out[k].fixing_commit = fic}

\* C1: every LabeledFile emitted for a fixing commit fic has a commit inside
\* the half-open window [bic, fic) of a fixing file with that fic; in
\* particular no LabeledFile has commit == fixing_commit.
C1_HalfOpenUpperEnd ==
    \A k \in 1..Len(out) :
        IsLabeledFile(out[k]) =>
            /\ out[k].commit # out[k].fixing_commit
            /\ \E i \in 1..Len(fixing_files) :
                  /\ fixing_files[i].fic = out[k].fixing_commit
                  /\ Pos(fixing_files[i].bic) <= Pos(out[k].commit)
                  /\ Pos(out[k].commit) < Pos(fixing_files[i].fic)

\* A completed walk that labeled the commit right before a fixing commit.
C1_Witness ==
    /\ Completed
    /\ err = "none"
    /\ \E k \in 1..Len(out) :
          /\ IsLabeledFile(out[k])
          /\ Pos(out[k].commit) + 1 = Pos(out[k].fixing_commit)

\* C2: when mine() has ended, every fixing file {bic, fic} with
\* index(bic) < index(fic) has a LabeledFile with commit == bic and
\* fixing_commit == fic in the stream.
C2_LabeledAtBic ==
    Completed =>
        \A i \in 1..Len(fixing_files) :
            Pos(fixing_files[i].bic) < Pos(fixing_files[i].fic) =>
                \E k \in LabelsOf(fixing_files[i].fic) :
                    out[k].commit = fixing_files[i].bic

\* The fixing file i was extracted from a MODIFY of the path `new`, and the
\* commit at position r, strictly inside its window, renamed that file from
\* `old` to `new`; no other commit inside the window renamed it.
RenamedInside(i, r, old, new) ==
    LET f == Pos(fixing_files[i].fic)
        b == Pos(fixing_files[i].bic)
        lineage == Touchers(ModsSeq, f - 1, new)
        renames == {q \in (b + 1)..(f - 1) :
                       /\ commit_hashes[q] \in lineage
                       /\ \E k \in 1..Len(ModsSeq[q]) :
                             ModsSeq[q][k].change_type = "RENAME"}
    IN /\ b < r /\ r < f
       /\ \E k \in 1..Len(ModsSeq[f]) : ModsSeq[f][k] = Mod("MODIFY", new, new)
       /\ renames = {r}
       /\ \E k \in 1..Len(ModsSeq[r]) : ModsSeq[r][k] = Mod("RENAME", old, new)

\* The labels of fixing file i report `old` before position r and `new` from
\* position r on.
RenameContinuity(i, r, old, new) ==
    \A k \in LabelsOf(fixing_files[i].fic) :
        /\ Pos(out[k].commit) < r => out[k].filepath = old
        /\ Pos(out[k].commit) >= r => out[k].filepath = new

\* C3: when a tracked file is renamed inside its window, the labels older
\* than the rename report the old path, those at or after it the new path,
\* and the walk completes without error.
C3_RenameContinuity ==
    Completed =>
        \A i \in 1..Len(fixing_files), r \in 1..Len(commit_hashes) :
            \A old \in Paths, new \in Paths :
                RenamedInside(i, r, old, new) =>
                    /\ RenameContinuity(i, r, old, new)
                    /\ err = "none"

\* The commit the extraction walk visits in this step, and its modification.
StepCommit == commit_hashes[cur]
StepMod == mods[StepCommit][1]

\* This step of the extraction walk builds a current_fix: the visited commit
\* is a fixing commit whose only modification changes or renames a relevant
\* file, and the blame collaborator names at least one commit for it.
BuildsFix ==
    /\ pc = "extract"
    /\ Len(mods[StepCommit]) = 1
    /\ StepCommit \in Range(fixing_commits)
    /\ StepMod.change_type \in {"MODIFY", "RENAME"}
    /\ is_ansible_file(StepMod.new_path)
    /\ blame[StepCommit][1] # {}

\* The commit of S with the smallest index position.
OldestOf(S) == CHOOSE x \in S : \A y \in S : Pos(x) <= Pos(y)

\* The current_fix of this step; its path is looked up in the rename map as
\* the step leaves it.
StepFix ==
    [filepath |-> DictGet(renamed_files', StepMod.new_path, StepMod.new_path),
     bic |-> OldestOf(blame[StepCommit][1]),
     fic |-> StepCommit]

\* The positions of the entries recorded for the path of current_fix.
SamePath == {i \in 1..Len(fixing_files) : fixing_files[i].filepath = StepFix.filepath}

\* The recorded entry current_fix is compared with: the first of its path.
Existing == CHOOSE i \in SamePath : \A j \in SamePath : i <= j

\* During the extraction walk every recorded entry keeps its position, its
\* path and its fic.
EntriesStay ==
    pc = "extract" =>
        /\ Len(fixing_files') >= Len(fixing_files)
        /\ \A i \in 1..Len(fixing_files) :
              /\ fixing_files'[i].filepath = fixing_files[i].filepath
              /\ fixing_files'[i].fic = fixing_files[i].fic

\* C4: when the fix found in a step is on a path already recorded and its fic
\* is older than the recorded entry's bic, it is appended as a new entry and
\* every recorded entry is left unchanged; no later step removes an entry.
C4_MergeSplit ==
    [][/\ (BuildsFix /\ SamePath # {}
              /\ Pos(StepFix.fic) < Pos(fixing_files[Existing].bic))
          => fixing_files' = Append(fixing_files, StepFix)
       /\ EntriesStay]_vars

\* Extraction has recorded two entries of one path, the second with a fic
\* older than the bic of the first.
C4_Witness ==
    /\ pc = "label"
    /\ \E i \in 1..Len(fixing_files), j \in 1..Len(fixing_files) :
          /\ i < j
          /\ fixing_files[i].filepath = fixing_files[j].filepath
          /\ Pos(fixing_files[j].fic) < Pos(fixing_files[i].bic)

\* The older of two commits.
Older(x, y) == IF Pos(x) < Pos(y) THEN x ELSE y

\* C5: when the fix found in a step is on a path already recorded and its fic
\* is not older than the recorded entry's bic, the list keeps its length, the
\* recorded entry keeps its (newer) fic and gets the older of the two bics,
\* and nothing else changes; the bic of an entry never moves to a newer commit.
C5_MergeRefine ==
    [][/\ (BuildsFix /\ SamePath # {}
              /\ ~(Pos(StepFix.fic) < Pos(fixing_files[Existing].bic)))
          => fixing_files' =
                 [fixing_files EXCEPT ![Existing].bic =
                      Older(StepFix.bic, fixing_files[Existing].bic)]
       /\ pc = "extract" =>
              \A i \in 1..Len(fixing_files) :
                  Pos(fixing_files'[i].bic) <= Pos(fixing_files[i].bic)]_vars

\* Extraction has merged an older fix into a recorded entry: the entry's bic
\* is older than every commit blamed for its own fixing commit.
C5_Witness ==
    /\ pc = "label"
    /\ \E i \in 1..Len(fixing_files) :
          /\ blame[fixing_files[i].fic][1] # {}
          /\ Pos(fixing_files[i].bic) < Pos(OldestOf(blame[fixing_files[i].fic][1]))

\* C6: index(bic) <= index(fic) for every fixing file, at every point of the
\* extraction walk and in the returned list (the blame collaborator of the
\* modelled repositories names only commits that precede the fixing commit).
C6_BicNotAfterFic ==
    \A i \in 1..Len(fixing_files) :
        Pos(fixing_files[i].bic) <= Pos(fixing_files[i].fic)

\* The extraction walk is under way and has recorded two entries.
C6_Witness == pc = "extract" /\ Len(fixing_files) >= 2

\* C7: with a single fixing commit F whose only modification changes one
\* relevant file, blamed on the single commit X, get_fixing_files returns
\* exactly one FixingFile, with that file's path, bic == X and fic == F.
C7_SingleFix ==
    pc = "label" =>
        \A F \in Hashes, X \in Hashes :
            (/\ fixing_commits = <<F>>
             /\ Len(mods[F]) = 1
             /\ mods[F][1].change_type \in {"MODIFY", "RENAME"}
             /\ is_ansible_file(mods[F][1].new_path)
             /\ blame[F][1] = {X})
            => fixing_files =
                   <<[filepath |-> mods[F][1].new_path, bic |-> X, fic |-> F]>>

\* get_fixing_files has returned for a single fixing commit that renames and
\* changes a file blamed on one commit.
C7_Witness ==
    /\ pc = "label"
    /\ Len(fixing_commits) = 1
    /\ Len(fixing_files) = 1
    /\ mods[fixing_commits[1]][1].change_type = "RENAME"
    /\ Cardinality(blame[fixing_commits[1]][1]) = 1

\* C9: when no fixing commit is found, or none yields a fixing file, mine()
\* ends without error and has yielded nothing.
C9_EmptyIsNoError ==
    Completed =>
        ((fixing_commits = <<>> \/ fixing_files = <<>>) =>
            (out = <<>> /\ err = "none"))

\* C8: a second invocation of mine() on the same miner and repository yields
\* the same elements in the same order as the first, and ends the same way.
C8_MineIdempotent ==
    (Completed /\ runs = 2) => (out = prevOut /\ err = prevErr)

\* Two invocations have completed on a repository where a tracked file is
\* renamed inside a window: one fixing commit has labels under two paths.
C8_Witness ==
    /\ Completed
    /\ runs = 2
    /\ \E k \in 1..Len(out), l \in 1..Len(out) :
          /\ IsLabeledFile(out[k]) /\ IsLabeledFile(out[l])
          /\ out[k].fixing_commit = out[l].fixing_commit
          /\ out[k].filepath # out[l].filepath

\* The positions of the commits labeled for the fixing commit fic.
LabeledPositions(fic) == {Pos(out[k].commit) : k \in LabelsOf(fic)}

\* C10: two fixing commits f1 < f2 on one path p, blamed on o1 and o2 with
\* o1 < f1 < o2 < f2: get_fixing_files returns (p, o2, f2) then (p, o1, f1),
\* and the stream labels exactly [o2, f2) for f2 and [o1, f1) for f1, all
\* under fixing commits f1 and f2, so nothing in [f1, o2).
C10_TwoEpisodes ==
    \A f1 \in Hashes, f2 \in Hashes, o1 \in Hashes, o2 \in Hashes :
        (/\ msgFix = {f1, f2}
         /\ blame[f1] = <<{o1}>> /\ blame[f2] = <<{o2}>>
         /\ Pos(o1) < Pos(f1) /\ Pos(f1) < Pos(o2) /\ Pos(o2) < Pos(f2)
         /\ mods[f1][1].new_path = mods[f2][1].new_path)
        => /\ pc = "label" =>
                  fixing_files = <<FixingFile(mods[f2][1].new_path, o2, f2),
                                   FixingFile(mods[f1][1].new_path, o1, f1)>>
           /\ Completed =>
                  /\ LabeledPositions(f2) = Pos(o2)..(Pos(f2) - 1)
                  /\ LabeledPositions(f1) = Pos(o1)..(Pos(f1) - 1)
                  /\ \A k \in 1..Len(out) :
                        IsLabeledFile(out[k]) /\ out[k].fixing_commit \in {f1, f2}

\* C11: the LabeledFiles are emitted in traversal order: along the stream the
\* index position of the labeled commit never increases, so the labels of one
\* visited commit are contiguous (a commit carries one label per tracked entry
\* whose window contains it).
C11_TraversalOrder ==
    \A k \in 1..Len(out), l \in 1..Len(out) :
        (k < l /\ IsLabeledFile(out[k]) /\ IsLabeledFile(out[l]))
            => Pos(out[k].commit) >= Pos(out[l].commit)

\* A completed walk emitted two labels for one commit and then a label for an
\* older commit.
C11_Witness ==
    /\ Completed
    /\ \E k \in 1..Len(out) :
          /\ k + 2 <= Len(out)
          /\ IsLabeledFile(out[k]) /\ IsLabeledFile(out[k + 1]) /\ IsLabeledFile(out[k + 2])
          /\ out[k].commit = out[k + 1].commit
          /\ out[k].fixing_commit # out[k + 1].fixing_commit
          /\ Pos(out[k + 2].commit) < Pos(out[k + 1].commit)

\* C19: label() leaves the list of fixing files as the extraction produced
\* it: no step of the labeling phase changes a field of an entry, or adds,
\* removes or reorders entries.
C19_FixingFilesReadOnly ==
    [][(pc \in {"label", "walk"}) => (fixing_files' = fixing_files)]_vars

\* The commit changes at least one file that the relevance filter accepts.
Relevant(sha) ==
    \E k \in 1..Len(mods[sha]) : is_ansible_file(mods[sha][k].new_path)

\* The commits of S that change a relevant file, in ascending index order.
RelevantOf(S) == SelectSeq(commit_hashes, LAMBDA sha : sha \in S /\ Relevant(sha))

\* C12: the list a finder gets back from discard_non_iac_fixing_commits holds
\* exactly the candidates (commits of the branch) that change at least one
\* relevant file, in ascending index order, whatever the order of the
\* candidates.
C12_RelevanceFilter ==
    /\ (pc = "messages" /\ Range(issueFix) \subseteq Hashes)
           => returned = RelevantOf(Range(issueFix))
    /\ pc = "get_fixing_files" => returned = RelevantOf(msgFix)

\* The issue finder has filtered two candidates given newest first: the newer
\* one changes a relevant file and is kept, the older one does not and is gone.
C12_Witness ==
    /\ pc = "messages"
    /\ Len(issueFix) = 2
    /\ Range(issueFix) \subseteq Hashes
    /\ Pos(issueFix[1]) > Pos(issueFix[2])
    /\ Relevant(issueFix[1]) /\ ~Relevant(issueFix[2])
    /\ returned = <<issueFix[1]>>

\* C13: fixing_commits is always sorted ascending by index position and has
\* no duplicates, also when both finders find the same commit or a finder is
\* invoked again.
C13_SortedNoDuplicates ==
    \A i \in 1..Len(fixing_commits) :
        /\ Pos(fixing_commits[i]) > 0
        /\ \A j \in 1..Len(fixing_commits) :
              i < j => Pos(fixing_commits[i]) < Pos(fixing_commits[j])

\* In the second invocation both finders have found again a commit that the
\* tracker names twice and whose message matches, next to a newer one.
C13_Witness ==
    /\ runs = 1
    /\ pc = "get_fixing_files"
    /\ Len(issueFix) = 2
    /\ issueFix[1] = issueFix[2]
    /\ issueFix[1] \in msgFix
    /\ Len(fixing_commits) >= 2
    /\ fixing_commits[1] = issueFix[1]

\* The extraction compares a commit outside the branch: blame names it among
\* the candidates for the bic of a relevant change of a fixing commit.
UnknownCompared ==
    \E sha \in Range(fixing_commits) : \E k \in 1..Len(mods[sha]) :
        /\ mods[sha][k].change_type \in {"MODIFY", "RENAME"}
        /\ is_ansible_file(mods[sha][k].new_path)
        /\ ~(blame[sha][k] \subseteq Hashes)

\* C16: when a commit that is not in the commit index is compared, the run
\* ends in an error that reaches the caller; the commit is not dropped
\* silently and no result is computed from the remaining ones.
C16_UnknownCommitFatal ==
    (Completed /\ UnknownCompared) => err # "none"

\* C18: after the fix-finding phase of mine(), fixing_commits is the
\* relevance-filtered union of the commits of the branch found from closed
\* issues and those found from messages: no relevant found commit is lost and
\* no other commit is in the list.
C18_UnionThenFilter ==
    pc = "get_fixing_files" =>
        fixing_commits = RelevantOf(Range(issueFix) \cup msgFix)

\* The first fix-finding phase has ended with a relevant commit found only
\* from the issues, a relevant commit found only from the messages, and an
\* irrelevant commit found from the messages.
C18_Witness ==
    /\ pc = "get_fixing_files"
    /\ runs = 0
    /\ \E x \in Range(issueFix) \ msgFix : x \in Hashes /\ Relevant(x)
    /\ \E y \in msgFix \ Range(issueFix) : Relevant(y)
    /\ \E z \in msgFix : ~Relevant(z)

\* The commits of a list that are not in exclude_commits.
NotExcluded(commits) == SelectSeq(commits, LAMBDA sha : sha \notin exclude_commits)

\* This step is the return of get_fixing_files.
Returning == pc \in {"extract", "get_fixing_files"} /\ pc' = "label"

\* With exclude_commits set: no excluded commit is in fixing_commits or in a
\* finder's list, no returned FixingFile has an excluded fic, and the found
\* commits that are not excluded are all there.
ExcludedCommitsGone ==
    /\ Range(fixing_commits) \cap exclude_commits = {}
    /\ Range(returned) \cap exclude_commits = {}
    /\ pc \in {"label", "walk"} =>
           \A i \in 1..Len(extracted) : extracted[i].fic \notin exclude_commits
    /\ pc = "get_fixing_files" =>
           /\ fixing_commits = NotExcluded(RelevantOf(Range(issueFix) \cup msgFix))
           /\ returned = NotExcluded(RelevantOf(msgFix))

NoExcludedLabel(stream) ==
    \A k \in 1..Len(stream) :
        IsLabeledFile(stream[k]) =>
            \A x \in exclude_fixing_files : stream[k].fixing_commit # x.fic

\* Two fixing commits f1 < f2 change the same path, blamed on o1 and o2 with
\* o1 < f1 < o2 < f2, and the caller excludes the fixing file of f2.
NewerEpisodeExcluded(f1, f2, o1, o2) ==
    /\ msgFix = {f1, f2}
    /\ blame[f1] = <<{o1}>> /\ blame[f2] = <<{o2}>>
    /\ Pos(o1) < Pos(f1) /\ Pos(f1) < Pos(o2) /\ Pos(o2) < Pos(f2)
    /\ mods[f1][1].new_path = mods[f2][1].new_path
    /\ exclude_fixing_files = {[filepath |-> mods[f2][1].new_path, fic |-> f2]}

Remainder(s) == SubSeq(s, LeadingRun(s, 1) + 1, Len(s))

\* C17: a commit is flagged iff the remainder of its message, after the
\* leading run of bug/fix-shaped word fragments is removed, matches the regex
\* without regard to the letter case of the message or of the regex.
C17_CleanedMessageDecides ==
    matched # "untested" =>
        (matched = "appended" <=>
            \E w \in regex : HasAt(lower(Remainder(commit_msg)), 1, lower(w)))

\* The rows and reports a finished run owes to the release r: one row for
\* every readable file of its two lists, one report for every other one.
ReleaseProcessed(r) ==
    /\ \A i \in 1..Len(Get(defect_prone_files, r)) :
          LET f == Get(defect_prone_files, r)[i] IN
          IF <<r, f>> \in unreadable
          THEN f \in Range(printed)
          ELSE [release_end |-> r, filepath |-> f, defective |-> "yes"] \in Range(saved)
    /\ \A i \in 1..Len(Get(defect_free_files, r)) :
          LET f == Get(defect_free_files, r)[i] IN
          IF <<r, f>> \in unreadable
          THEN f \in Range(printed)
          ELSE [release_end |-> r, filepath |-> f, defective |-> "no"] \in Range(saved)

\* Every checkout of a release is followed by the reset of that release
\* before anything else is done on the repository.
ResetAfterEachRelease ==
    \A i \in 1..Len(git_ops) :
        git_ops[i].op = "checkout" =>
            /\ i < Len(git_ops)
            /\ git_ops[i + 1] = [op |-> "reset", release |-> git_ops[i].release]

\* C20: a failure while one file is read or measured never ends Main.run:
\* the run only stops early at a release whose process metrics or checkout
\* fail, and a finished run has saved or reported every file of every release that has files, has reset the
\* repository after each of these releases and has cleared and deleted it last.
C20_PerFileTolerance ==
    /\ run_pc = "raised" => release_i \in broken
    /\ run_pc = "done" =>
          /\ \A r \in all_keys : ReleaseProcessed(r)
          /\ \A r \in all_keys :
                \E i \in 1..Len(git_ops) : git_ops[i] = [op |-> "reset", release |-> r]
          /\ ResetAfterEachRelease
          /\ Len(git_ops) >= 2
          /\ git_ops[Len(git_ops) - 1].op = "clear"
          /\ git_ops[Len(git_ops)].op = "delete_repo"

\* A finished run in which the first defect-prone file of the first release
\* could not be read, the second one was saved, and so was a file of the
\* second release.
C20_Witness ==
    /\ run_pc = "done"
    /\ Len(Get(defect_prone_files, 1)) = 2
    /\ <<1, defect_prone_files[1][1]>> \in unreadable
    /\ [release_end |-> 1, filepath |-> defect_prone_files[1][2], defective |-> "yes"]
          \in Range(saved)
    /\ \E i \in 1..Len(saved) : saved[i].release_end = 2
    /\ printed # <<>>

\* Some commit inside the window [bic, fic) of the entry adds a file.
AddedInside(entry) ==
    \E c \in Pos(entry.bic)..(Pos(entry.fic) - 1) :
        \E k \in 1..Len(ModsSeq[c]) : ModsSeq[c][k].change_type = "ADD"

\* The elements of the stream that label the commit at position c for the
\* fixing commit fic.
LabelsAt(c, fic) == {k \in LabelsOf(fic) : out[k].commit = commit_hashes[c]}

\* C21: when mine() has ended, every entry of the list get_fixing_files
\* returned whose window holds no addition has exactly one LabeledFile for
\* every commit of its window [bic, fic).
C21_WindowComplete ==
    Completed =>
        \A i \in 1..Len(extracted) :
            ~AddedInside(extracted[i]) =>
                \A c \in Pos(extracted[i].bic)..(Pos(extracted[i].fic) - 1) :
                    Cardinality(LabelsAt(c, extracted[i].fic)) = 1

\* The commit the walk of label visits in this step adds a file.
VisitsAddition ==
    \E k \in 1..Len(mods[commit_hashes[cur]]) :
        mods[commit_hashes[cur]][k].change_type = "ADD"

\* C22: in a step of the walk of label that raises nothing, a tracked entry
\* whose bic is the visited commit leaves its group, and no other tracked entry leaves a group
\* (an addition aside): the entries that are inside or ahead of their window
\* stay tracked.
C22_ExhaustionRemovesExactly ==
    [][(pc = "walk" /\ err' = "none") =>
          \A key \in DOMAIN labeling :
              \A g \in 1..Len(labeling[key]) :
                  LET id == labeling[key][g]
                      exhausted == cur = Pos(fixing_files[id].bic)
                                   /\ InWindow(fixing_files[id], cur)
                      gone == id \notin Range(labeling'[key])
                  IN /\ exhausted => gone
                     /\ (gone /\ ~VisitsAddition) => exhausted]_vars

\* The half-open windows [bic, fic) of two entries have no commit in common.
Disjoint(e1, e2) ==
    Pos(e1.fic) <= Pos(e2.bic) \/ Pos(e2.fic) <= Pos(e1.bic)

\* C23: in the list get_fixing_files returned, any two entries of one path
\* have disjoint windows.
C23_DisjointWindows ==
    \A i \in 1..Len(extracted), j \in 1..Len(extracted) :
        (i < j /\ extracted[i].filepath = extracted[j].filepath)
            => Disjoint(extracted[i], extracted[j])

\* The commits at positions f1 < r < f2 fix and rename one file: f1 changes
\* it under the name `old`, r renames it to `new`, f2 changes it under the
\* name `new`, and no other commit between f1 and f2 adds, deletes or renames.
FixedAcrossRename(f1, r, f2, old, new) ==
    /\ f1 < r /\ r < f2
    /\ {commit_hashes[f1], commit_hashes[f2]} \subseteq Range(fixing_commits)
    /\ ModsSeq[f1] = <<Mod("MODIFY", old, old)>>
    /\ ModsSeq[r] = <<Mod("RENAME", old, new)>>
    /\ ModsSeq[f2] = <<Mod("MODIFY", new, new)>>
    /\ blame[commit_hashes[f1]][1] # {} /\ blame[commit_hashes[f2]][1] # {}
    /\ \A c \in (f1 + 1)..(f2 - 1) :
          c # r => \A k \in 1..Len(ModsSeq[c]) : ModsSeq[c][k].change_type = "MODIFY"

\* C24: when get_fixing_files returns, two fixes of one file on both sides
\* of a rename old -> new are recorded under the path `new`: no returned entry
\* of either fixing commit has another path (the older fix is an entry of the
\* path `new` or merged into the entry of the newer one), whether the renaming
\* commit is a fixing commit or not.
C24_RenameIdentity ==
    pc = "label" =>
        \A f1 \in 1..Len(commit_hashes), r \in 1..Len(commit_hashes),
           f2 \in 1..Len(commit_hashes), old \in Paths, new \in Paths :
            FixedAcrossRename(f1, r, f2, old, new) =>
                /\ \E i \in 1..Len(extracted) :
                      /\ extracted[i].fic = commit_hashes[f2]
                      /\ extracted[i].filepath = new
                /\ \A i \in 1..Len(extracted) :
                      extracted[i].fic = commit_hashes[f1] => extracted[i].filepath = new

\* C25: at every step of the extraction walk, a name the rename map maps to
\* is not mapped further by the map: every key of a chain of renames maps to
\* the newest name, never to an intermediate one.
C25_RenameMapNewest ==
    \A k \in DOMAIN renamed_files :
        renamed_files[k] \in DOMAIN renamed_files =>
            renamed_files[renamed_files[k]] = renamed_files[k]

\* The returned entry i was extracted from a MODIFY of the path `new`, and
\* inside its window the file was renamed twice: from `older` to `old` at
\* position r2 and from `old` to `new` at position r1; the other commits from
\* r2 to the fixing commit only change files.
RenamedTwiceInside(i, r2, r1, older, old, new) ==
    LET f == Pos(extracted[i].fic)
        b == Pos(extracted[i].bic)
    IN /\ b < r2 /\ r2 < r1 /\ r1 < f
       /\ ModsSeq[f] = <<Mod("MODIFY", new, new)>>
       /\ ModsSeq[r1] = <<Mod("RENAME", old, new)>>
       /\ ModsSeq[r2] = <<Mod("RENAME", older, old)>>
       /\ \A c \in (r2 + 1)..(f - 1) :
             c # r1 => \A k \in 1..Len(ModsSeq[c]) : ModsSeq[c][k].change_type = "MODIFY"

\* C26: when a tracked file was renamed twice inside its window, the second
\* rename met by the walk (older -> old) is recognised as well: the labels of
\* the commits older than it report the oldest name.
C26_ChainedRenames ==
    \A i \in 1..Len(extracted), r2 \in 1..Len(commit_hashes), r1 \in 1..Len(commit_hashes) :
        \A older \in Paths, old \in Paths, new \in Paths :
            RenamedTwiceInside(i, r2, r1, older, old, new) =>
                \A k \in LabelsOf(extracted[i].fic) :
                    Pos(out[k].commit) < r2 => out[k].filepath = older

\* The elements the step of the walk appends to the stream.
StepLabels == {out'[k] : k \in (Len(out) + 1)..Len(out')}

\* The commit the walk of label visits adds a file at the path p, which is
\* the path the tracked entry id has and is grouped under, inside its window.
AddedAt(key, id, p) ==
    /\ mods[commit_hashes[cur]] = <<Mod("ADD", None, p)>>
    /\ key = p
    /\ fixing_files[id].filepath = p
    /\ InWindow(fixing_files[id], cur)

\* C27: in the step of the walk of label that visits a commit adding the file
\* of a tracked entry inside its window, the entry is labeled at that commit
\* and leaves its group; every other tracked entry that is not exhausted stays
\* tracked, and is labeled if the commit is in its window (nothing is asked
\* of an entry whose path is no longer the key of its group); an entry that
\* is not tracked is not labeled.
C27_AdditionEndsLineage ==
    [][pc = "walk" =>
          /\ \A key \in DOMAIN labeling :
                \A g \in 1..Len(labeling[key]) :
                    LET id == labeling[key][g]
                        file == fixing_files[id]
                        added == \E p \in ChainPaths : AddedAt(key, id, p)
                    IN /\ added =>
                            /\ LabeledFile(file.filepath, commit_hashes[cur], file.fic)
                                  \in StepLabels
                            /\ id \notin Range(labeling'[key])
                       /\ (~added /\ VisitsAddition /\ file.filepath = key) =>
                            /\ cur # Pos(file.bic) => id \in Range(labeling'[key])
                            /\ InWindow(file, cur) =>
                                  LabeledFile(file.filepath, commit_hashes[cur], file.fic)
                                      \in StepLabels
          /\ \A x \in StepLabels :
                \E key \in DOMAIN labeling :
                    \E g \in 1..Len(labeling[key]) :
                        fixing_files[labeling[key][g]].fic = x.fixing_commit]_vars

\* C28: the FixingFile a step of the extraction walk builds has the blamed
\* commit of the smallest index position as bic and the rename map's value
\* for the new path, or the new path itself, as filepath: an entry the step
\* appends is that FixingFile, and a bic the step changes becomes that bic.
C28_BicAndPathOfNewFix ==
    [][BuildsFix =>
          /\ Len(fixing_files') > Len(fixing_files) =>
                fixing_files'[Len(fixing_files')] =
                    [filepath |-> IF StepMod.new_path \in DOMAIN renamed_files'
                                  THEN renamed_files'[StepMod.new_path]
                                  ELSE StepMod.new_path,
                     bic |-> OldestOf(blame[StepCommit][1]),
                     fic |-> StepCommit]
          /\ \A i \in 1..Len(fixing_files) :
                fixing_files'[i].bic # fixing_files[i].bic =>
                    /\ fixing_files'[i].bic = OldestOf(blame[StepCommit][1])
                    /\ \A x \in blame[StepCommit][1] :
                          Pos(fixing_files'[i].bic) <= Pos(x)]_vars

\* The extraction walk has appended a FixingFile whose path is the rename
\* map's value for the path its fixing commit changed, and whose bic is the
\* oldest of several blamed commits.
C28_Witness ==
    /\ pc \in {"extract", "label"}
    /\ \E i \in 1..Len(fixing_files) :
          LET fic == fixing_files[i].fic IN
          /\ Cardinality(blame[fic][1]) >= 2
          /\ fixing_files[i].bic = OldestOf(blame[fic][1])
          /\ mods[fic][1].new_path \in DOMAIN renamed_files
          /\ fixing_files[i].filepath = renamed_files[mods[fic][1].new_path]
          /\ fixing_files[i].filepath # mods[fic][1].new_path

\* The entry comes from a change of its fixing commit that the relevance
\* filter accepts.
FromRelevantChange(entry) ==
    /\ entry.fic \in Range(fixing_commits)
    /\ is_ansible_file(entry.filepath)
    /\ \E k \in 1..Len(mods[entry.fic]) :
          /\ mods[entry.fic][k].change_type \in {"MODIFY", "RENAME"}
          /\ is_ansible_file(mods[entry.fic][k].new_path)
          /\ blame[entry.fic][k] # {}

\* C29: at every step of the extraction walk, and in the list it returns,
\* every FixingFile has a fixing commit as fic and comes from a change of a
\* relevant file; the visit of a commit that is not a fixing commit leaves
\* the list of fixing files as it is.
C29_OnlyFixingAndRelevant ==
    [][pc = "extract" =>
          /\ \A i \in 1..Len(fixing_files') : FromRelevantChange(fixing_files'[i])
          /\ StepCommit \notin Range(fixing_commits) => fixing_files' = fixing_files]_vars

\* get_fixing_files has returned an entry of a fixing commit that also
\* changes the other file, after its walk visited a commit that is not a
\* fixing commit and changes the IaC file, with a blame answer.
C29_Witness ==
    /\ pc = "label"
    /\ \E i \in 1..Len(extracted) :
          /\ Len(mods[extracted[i].fic]) = 2
          /\ blame[extracted[i].fic][1] # {}
    /\ \E c \in Pos(fixing_commits[1])..Pos(fixing_commits[Len(fixing_commits)]) :
          /\ commit_hashes[c] \notin Range(fixing_commits)
          /\ \E k \in 1..Len(ModsSeq[c]) :
                ModsSeq[c][k].new_path = "a" /\ blame[commit_hashes[c]][k] # {}

\* The modifications of the visited commit that can carry a lineage.
LineageMods ==
    {k \in 1..Len(mods[StepCommit]) :
        mods[StepCommit][k].change_type \in {"MODIFY", "RENAME"}}

\* C30: added and deleted files carry no lineage. When the extraction walk
\* visits a fixing commit, a modification whose change type is not MODIFY or
\* RENAME creates no FixingFile, updates none and leaves the rename map: a
\* commit of such modifications only leaves the list and the map as they
\* were, and every entry created or updated and every key written comes from
\* a MODIFY or RENAME modification of the commit.
C30_AddedDeletedNoLineage ==
    [][pc = "extract" /\ StepCommit \in Range(fixing_commits) =>
          /\ LineageMods = {} =>
                fixing_files' = fixing_files /\ renamed_files' = renamed_files
          /\ \A i \in 1..Len(fixing_files') :
                (i > Len(fixing_files) \/ fixing_files'[i] # fixing_files[i]) =>
                    \E k \in LineageMods :
                        fixing_files'[i].filepath =
                            DictGet(renamed_files', mods[StepCommit][k].new_path,
                                    mods[StepCommit][k].new_path)
          /\ \A p \in DOMAIN renamed_files' :
                (p \notin DOMAIN renamed_files \/ renamed_files'[p] # renamed_files[p]) =>
                    \E k \in LineageMods :
                        /\ mods[StepCommit][k].change_type = "RENAME"
                        /\ mods[StepCommit][k].old_path = p]_vars

\* get_fixing_files has returned entries after its walk visited a fixing
\* commit that adds a file and a fixing commit that deletes one, both with a
\* blame answer.
C30_Witness ==
    /\ pc = "label"
    /\ extracted # <<>>
    /\ \A t \in {"ADD", "DELETE"} :
          \E sha \in Range(fixing_commits), k \in 1..2 :
              /\ k <= Len(mods[sha])
              /\ mods[sha][k].change_type = t
              /\ blame[sha][k] # {}

\* The walk of label labels, at the first commit of the index, every returned
\* entry whose bic is that commit.
LabeledAtFirstCommit ==
    \A i \in 1..Len(extracted) :
        extracted[i].bic = commit_hashes[1] =>
            \E k \in 1..Len(out') :
                /\ IsLabeledFile(out'[k])
                /\ out'[k].commit = commit_hashes[1]
                /\ out'[k].fixing_commit = extracted[i].fic

\* C31: the labeling walk visits every commit from the newest fixing commit
\* down to the first commit of the index once and then terminates: every
\* step of the walk either moves to the commit just before, or is the step at
\* the first commit, which ends the generator without an error; and at that
\* first commit every entry whose bic is the first commit is labeled.
C31_WalkDownToFirstCommit ==
    [][pc = "walk" =>
          /\ \/ cur > 1 /\ pc' = "walk" /\ cur' = cur - 1
             \/ cur = 1 /\ pc' = "idle" /\ err' = "none"
          /\ cur = 1 => LabeledAtFirstCommit]_vars

\* The names of the files written so far, in the order of writing.
WrittenNames == [i \in 1..Len(written) |-> written[i].name]

\* The files a run asked for `info` writes when no call raises.
PhasesOf(info) ==
    CASE info = "fixing-commits" -> <<"fixing-commits.json">>
      [] info = "fixed-files" -> <<"fixing-commits.json", "fixed-files.json">>
      [] OTHER -> <<"fixing-commits.json", "fixed-files.json", "failure-prone-files.json">>

\* C32: the phases of the mine command are ordered. At every moment the
\* files written are the first files of the run's phases, in their order:
\* fixing-commits.json comes first, fixed-files.json only when fixed-files or
\* failure-prone-files is asked and after fixing-commits.json,
\* failure-prone-files.json only when it is asked and after fixed-files.json;
\* a run that reaches exit(0) has written all of them; and the fixed-files
\* phase worked on the fixing commits the first phase dumped.
C32_PhaseOrder ==
    /\ Len(written) <= Len(PhasesOf(info_to_mine))
    /\ WrittenNames = SubSeq(PhasesOf(info_to_mine), 1, Len(written))
    /\ cli_pc = "exit" => WrittenNames = PhasesOf(info_to_mine)
    /\ cli_pc # "mine_fixing_commits" /\ raises # "fixing-commits"
          => Len(written) >= 1
    /\ Len(written) >= 2 => written[2].content.of = written[1].content

\* A run asked for failure-prone-files has exited after its three phases,
\* with fixing commits found.
C32_Witness ==
    /\ cli_pc = "exit"
    /\ info_to_mine = "failure-prone-files"
    /\ Len(written) = 3
    /\ written[1].content # <<>>

\* C33: in the iacminer variant, message-based detection is applied to every
\* commit of the branch whatever the issue tracker answers: once
\* set_fixing_commits has returned, fixing_commits holds every commit of the
\* branch whose cleaned message matches and the commit of every merged or
\* closed event of the closed bug issues, also when an issue has no events.
C33_MessagesAlwaysApplied ==
    iac_pc = "after_set_fixing_commits" =>
        /\ \A sha \in Range(commit_hashes) : sha \in msgFix => sha \in iac_fixing_commits
        /\ \A i \in 1..Len(issues) : \A k \in 1..Len(issues[i]) :
              NamesFixingCommit(issues[i][k]) => issues[i][k].commit_id \in iac_fixing_commits

\* Every commit the blame collaborator names precedes, in the index, the
\* commit it is asked about.
BlamePrecedes ==
    \A sha \in Range(commit_hashes) : \A k \in 1..Len(blame[sha]) :
        \A bic \in blame[sha][k] : Pos(bic) # 0 /\ Pos(bic) < Pos(sha)

\* C34: in the iacminer variant, when every blame commit precedes its fixing
\* commit, every step of the walk of get_fixing_files leaves at most one
\* FixingFile per filepath: a fix of a recorded path merges its bics into
\* the entry, which keeps its place, its path and its fic (the newest fixing
\* commit of the path), and no second entry of the path is appended.
C34_OneEntryPerPath ==
    [][BlamePrecedes /\ iac_pc = "walk" =>
          /\ \A i \in 1..Len(iac_fixing_files'), j \in 1..Len(iac_fixing_files') :
                i # j => iac_fixing_files'[i].filepath # iac_fixing_files'[j].filepath
          /\ \A i \in 1..Len(iac_fixing_files) :
                /\ i <= Len(iac_fixing_files')
                /\ iac_fixing_files'[i].filepath = iac_fixing_files[i].filepath
                /\ iac_fixing_files'[i].fic = iac_fixing_files[i].fic
                /\ iac_fixing_files[i].bics \subseteq iac_fixing_files'[i].bics
          /\ \A i \in 1..Len(iac_fixing_files') :
                Pos(iac_fixing_files'[i].fic) >= iac_cur]_vars

\* get_fixing_files has returned one entry that holds the bics of two fixing
\* commits, the older of them blamed on a commit the newer is not blamed on.
C34_Witness ==
    /\ iac_pc = "done"
    /\ BlamePrecedes
    /\ Len(iac_fixing_files) = 1
    /\ \E f \in iac_fixing_commits :
          /\ f # iac_fixing_files[1].fic
          /\ Len(blame[f]) = 1
          /\ blame[f][1] # {}
          /\ blame[f][1] \subseteq iac_fixing_files[1].bics
          /\ blame[f][1] \cap blame[iac_fixing_files[1].fic][1] = {}

\* The k-th modification of the visited commit is one get_fixing_files asks
\* the blame collaborator about, and the answer is not empty and names no
\* commit of the index.
BlamedOutsideIndex(k) ==
    /\ StepCommit \in Range(fixing_commits)
    /\ mods[StepCommit][k].change_type \in {"MODIFY", "RENAME"}
    /\ is_ansible_file(mods[StepCommit][k].new_path)
    /\ blame[StepCommit][k] # {}
    /\ blame[StepCommit][k] \cap Hashes = {}

\* C35: blame results outside the index do not break the extraction. When
\* the walk of get_fixing_files visits a fixing commit with a file whose
\* blame answer is not empty and names no commit of the index, no FixingFile
\* is created for the file and the walk goes on without an error; and the bic
\* of every FixingFile is a commit of the index.
C35_BlameOutsideIndex ==
    [][pc = "extract" =>
          /\ (\E k \in 1..Len(mods[StepCommit]) : BlamedOutsideIndex(k)) =>
                /\ err' = "none"
                /\ \A i \in 1..Len(fixing_files') :
                      fixing_files'[i].fic = StepCommit =>
                          \E k \in 1..Len(mods[StepCommit]) : ~BlamedOutsideIndex(k)
          /\ \A i \in 1..Len(fixing_files') : fixing_files'[i].bic \in Hashes]_vars

\* C36: candidates outside the branch do not break the relevance pass. When
\* the issue finder collects a list that is not empty and holds no commit of
\* the index, discard_non_iac_fixing_commits leaves it empty without an
\* error, and the finder returns an empty list and leaves fixing_commits.
C36_CandidatesOutsideBranch ==
    [][pc = "issues" /\ issueFix # <<>> /\ Range(issueFix) \cap Hashes = {} =>
          /\ err' = "none"
          /\ returned' = <<>>
          /\ fixing_commits' = fixing_commits]_vars

\* The release commits occur in the commit list of the branch in release
\* order.
InReleaseOrder ==
    /\ \A i \in 1..Len(release_commits) : Pos(release_commits[i]) # 0
    /\ \A i \in 1..Len(release_commits), j \in 1..Len(release_commits) :
          i < j => Pos(release_commits[i]) < Pos(release_commits[j])

\* The positions of the commits of the release r.
CommitsOf(r) == Pos(r.start)..Pos(r.end)

\* C37: when the release commits occur in the branch in release order, the
\* loop of Main.run raises nothing and ends with releases_hash empty and one
\* Release per release commit, in order: its end is the release commit, with
\* its date, and its start is the first commit no earlier release covers, so
\* the ranges are contiguous, disjoint and chronological, and every commit up
\* to the last release belongs to exactly one release.
C37_ReleasePartition ==
    InReleaseOrder =>
        /\ run_pc # "raised"
        /\ run_pc = "mine" =>
              /\ releases_hash = <<>>
              /\ Len(releases) = Len(release_commits)
              /\ \A i \in 1..Len(releases) :
                    /\ releases[i].end = release_commits[i]
                    /\ releases[i].date = DateOf(release_commits[i])
                    /\ Pos(releases[i].start) =
                          IF i = 1 THEN 1 ELSE Pos(releases[i - 1].end) + 1
                    /\ Pos(releases[i].start) <= Pos(releases[i].end)
              /\ \A c \in 1..Len(commit_hashes) :
                    (releases # <<>> /\ c <= Pos(releases[Len(releases)].end)) =>
                        Cardinality({i \in 1..Len(releases) : c \in CommitsOf(releases[i])}) = 1

\* The loop has ended after building two releases, the second of more than
\* one commit, with commits left after the last release.
C37_Witness ==
    /\ run_pc = "mine"
    /\ InReleaseOrder
    /\ Len(releases) >= 2
    /\ releases[2].start # releases[2].end
    /\ commits_hash # <<>>

\* C38: sort_commits(commits) replaces the list by the subsequence of the
\* commit index made of the commits it contained. When get_fixing_files
\* sorts fixing_commits, the list it leaves is ascending by index position,
\* has no duplicate and no commit outside the index, holds every commit of
\* the list that is in the index, and sorting it again leaves it unchanged.
C38_SortCommits ==
    [][pc = "get_fixing_files" /\ fixing_commits # <<>> =>
          /\ \A i \in 1..Len(fixing_commits'), j \in 1..Len(fixing_commits') :
                i < j => Pos(fixing_commits'[i]) < Pos(fixing_commits'[j])
          /\ \A i \in 1..Len(fixing_commits') : fixing_commits'[i] \in Hashes
          /\ Range(fixing_commits') = Range(fixing_commits) \cap Hashes
          /\ sort_commits(fixing_commits') = fixing_commits']_vars

\* get_fixing_files has sorted a list that was out of order, held a commit
\* twice and held a commit outside the index, and walks what is left.
C38_Witness ==
    /\ pc = "extract"
    /\ runs = 0
    /\ cur = Pos(fixing_commits[Len(fixing_commits)])
    /\ \E i \in 1..Len(include_commits), j \in 1..Len(include_commits) :
          i < j /\ Pos(include_commits[i]) > Pos(include_commits[j]) /\ Pos(include_commits[j]) # 0
    /\ \E i \in 1..Len(include_commits), j \in 1..Len(include_commits) :
          i # j /\ include_commits[i] = include_commits[j]
    /\ \E i \in 1..Len(include_commits) : include_commits[i] \notin Hashes
    /\ Len(fixing_commits) = 2

====
